---- MODULE Spec2Model ----
(***************************************************************************)
(* A model of the UHD host control layer:                                  *)
(*   host/lib/usrp/dboard/manager.cpp  the daughterboard registry, the     *)
(*                                     manager and its subdevice proxies   *)
(*   host/lib/usrp/multi_usrp.cpp      the multi-board facade, the channel *)
(*                                     resolver and the time-sync protocol *)
(* The three parts share no state.  Each has its own specification         *)
(* (SpecMgr, SpecTime, SpecFacade) over the module's variables;   *)
(* a specification leaves the other parts' variables at their idle value.  *)
(***************************************************************************)
EXTENDS Integers, Sequences, FiniteSets, TLC

VARIABLES
    \* ---- manager.cpp: process-wide statics
    called,             \* register_internal_dboards: static bool called
    id_to_ctor_map,     \* uhd::dict<dboard_id_t, dboard_ctor_t>, a list of pairs
    ctor_to_names_map,  \* uhd::dict<dboard_ctor_t, prop_names_t>
    \* ---- manager.cpp: the most recently constructed manager object
    mgr,                \* [state, _rx_dboards, _tx_dboards, heap, err, events, rx_id, tx_id]
    \* ---- history of the manager part (not program state)
    reg_hist,           \* register_subdevs calls: the last constructor per code, the count
    last_set,           \* the last set through a proxy, with the other side's get before it
    last_get,           \* the last get_rx_subdev / get_tx_subdev call, with its outcome
    \* ---- multi_usrp.cpp, time synchronisation: the boards and the running call
    hw,                 \* per board: now (TIME_NOW), pps (TIME_PPS read), armed (TIME_PPS
                        \* written); wired: the boards that receive the PPS signal
    tc,                 \* the call in progress: its position and locals, with its history
    \* ---- multi_usrp.cpp, the facade: the device tree and the last call made
    dev,                \* per board the RX and TX subdevice specification; the DSP count
    fc                  \* the last call: its arguments, its writes, its outcome

mgrVars == <<called, id_to_ctor_map, ctor_to_names_map, mgr, reg_hist, last_set, last_get>>

timeVars == <<hw, tc>>

facVars == <<dev, fc>>

nonMgrVars == <<timeVars, facVars>>

nonTimeVars == <<mgrVars, facVars>>

nonFacVars == <<mgrVars, timeVars>>

vars == <<mgrVars, timeVars, facVars>>

\* -------------------------------------------------------------------------
\* Small helpers
\* -------------------------------------------------------------------------
NoValue == "none"

Range(s) == {s[i] : i \in 1..Len(s)}

\* -------------------------------------------------------------------------
\* uhd::dict<Key, Val>: an insertion-ordered list of (key, value) pairs
\* -------------------------------------------------------------------------
dict_has_key(d, k) == \E i \in 1..Len(d) : d[i].key = k

dict_index(d, k) == CHOOSE i \in 1..Len(d) : d[i].key = k /\ \A j \in 1..(i-1) : d[j].key # k

\* operator[] as an rvalue on a key that is present
dict_get(d, k) == d[dict_index(d, k)].val

\* operator[] as an lvalue followed by an assignment
dict_set(d, k, v) ==
    IF dict_has_key(d, k)
    THEN [d EXCEPT ![dict_index(d, k)] = [key |-> k, val |-> v]]
    ELSE Append(d, [key |-> k, val |-> v])

dict_get_keys(d) == [i \in 1..Len(d) |-> d[i].key]

\* -------------------------------------------------------------------------
\* Identity codes, constructors and subdevice names
\* -------------------------------------------------------------------------
\* The built-in identity codes named by register_internal_dboards.
ID_NONE == 65535

ID_BASIC_TX == 0

ID_BASIC_RX == 1

\* An identity code of a board whose driver is supplied from outside.
ExtIds == {36}

DboardIds == {ID_NONE, ID_BASIC_TX, ID_BASIC_RX} \cup ExtIds

\* dboard_ctor_t values: function pointers, compared by address.
basic_tx_make == "basic_tx::make"

basic_rx_make == "basic_rx::make"

Ctors == {basic_tx_make, basic_rx_make, "ext::make"}

\* The subdevice-name lists an external registration may pass.
NameLists == {<<"a">>, <<"b", "b">>}

SubdevNames == {"", "a", "b", "ab"}

\* How many external register_subdevs calls and proxy sets a run makes.
MaxRegs == 2

MaxSets == 1

\* -------------------------------------------------------------------------
\* boost::format "%04x": zero-padded lower-case hexadecimal, at least 4 digits
\* -------------------------------------------------------------------------
HexDigits == <<"0","1","2","3","4","5","6","7","8","9","a","b","c","d","e","f">>

RECURSIVE hex(_)
hex(n) == IF n < 16 THEN <<HexDigits[n + 1]>> ELSE Append(hex(n \div 16), HexDigits[(n % 16) + 1])

RECURSIVE zero_pad(_, _)
zero_pad(s, width) == IF Len(s) >= width THEN s ELSE zero_pad(<<"0">> \o s, width)

format_04x(n) == zero_pad(hex(n), 4)

\* -------------------------------------------------------------------------
\* manager.cpp: the registry.  R = [called, i2c, c2n, hist] stands for
\* the statics called, id_to_ctor_map, ctor_to_names_map, and the call history.
\* -------------------------------------------------------------------------
RECURSIVE register_internal_dboards(_)

\* History of one register_subdevs call: last is the constructor last
\* registered for the code by any call and names the list registered with it,
\* ext the constructor last registered by a client, n_ext the number of
\* client calls.
note_registration(H, dboard_id, dboard_ctor, subdev_names, internal) ==
    [H EXCEPT
        !.last = [H.last EXCEPT ![dboard_id] = dboard_ctor],
        !.names = [H.names EXCEPT ![dboard_id] = subdev_names],
        !.ext = IF internal THEN H.ext ELSE [H.ext EXCEPT ![dboard_id] = dboard_ctor],
        !.n_ext = IF internal THEN H.n_ext ELSE H.n_ext + 1]

\* History of one run of the seeding body (lines 45-48): n_seed counts the
\* runs, seed_first tells that no client registration had been stored yet.
note_seeding(R) ==
    [R.hist EXCEPT
        !.n_seed = R.hist.n_seed + 1,
        !.seed_first = R.hist.n_ext = 0 /\ R.i2c = <<>> /\ R.c2n = <<>>]

\* register_subdevs that stores its entry first and seeds afterwards
register_subdevs_seed_last(R, dboard_id, dboard_ctor, subdev_names, internal) ==
    register_internal_dboards(
        [R EXCEPT
            !.i2c = dict_set(R.i2c, dboard_id, dboard_ctor),
            !.c2n = dict_set(R.c2n, dboard_ctor, subdev_names),
            !.hist = note_registration(R.hist, dboard_id, dboard_ctor, subdev_names, internal)])

\* register_subdevs that keeps an entry already present (first write wins)
register_subdevs_keep_first(R, dboard_id, dboard_ctor, subdev_names, internal) ==
    LET R1 == register_internal_dboards(R) IN
    [R1 EXCEPT
        !.i2c = IF dict_has_key(R1.i2c, dboard_id) THEN R1.i2c
                ELSE dict_set(R1.i2c, dboard_id, dboard_ctor),
        !.c2n = dict_set(R1.c2n, dboard_ctor, subdev_names),
        !.hist = note_registration(R1.hist, dboard_id, dboard_ctor, subdev_names, internal)]

\* register_subdevs, lines 60-68; internal marks the calls made by seeding.
\* R.hist is history, not program state: the constructor last registered for
\* each code, and how many external calls were made.
register_subdevs_from(R, dboard_id, dboard_ctor, subdev_names, internal) ==
    LET R1 == register_internal_dboards(R) IN
    [R1 EXCEPT
        !.i2c = dict_set(R1.i2c, dboard_id, dboard_ctor),
        !.c2n = dict_set(R1.c2n, dboard_ctor, subdev_names),
        !.hist = note_registration(R1.hist, dboard_id, dboard_ctor, subdev_names, internal)]

register_internal_dboards(R) ==
    IF R.called THEN R
    ELSE LET R0 == [R EXCEPT !.called = TRUE, !.hist = note_seeding(R)]
             R1 == register_subdevs_from(R0, ID_NONE, basic_tx_make, <<"">>, TRUE)
             R2 == register_subdevs_from(R1, ID_NONE, basic_rx_make, <<"ab">>, TRUE)
             R3 == register_subdevs_from(R2, ID_BASIC_TX, basic_tx_make, <<"">>, TRUE)
         IN  register_subdevs_from(R3, ID_BASIC_RX, basic_rx_make, <<"a", "b", "ab">>, TRUE)

register_subdevs(R, dboard_id, dboard_ctor, subdev_names) ==
    register_subdevs_from(R, dboard_id, dboard_ctor, subdev_names, FALSE)

\* get_dboard_ctor whose message renders the code with "%04d"
RECURSIVE dec(_)
dec(n) == IF n < 10 THEN <<HexDigits[n + 1]>> ELSE Append(dec(n \div 10), HexDigits[(n % 10) + 1])

get_dboard_ctor_decimal(i2c, dboard_id, xx_type) ==
    IF ~dict_has_key(i2c, dboard_id)
    THEN [ok |-> FALSE, ctor |-> NoValue,
          what |-> <<"Unknown", xx_type, "dboard id:", "0x">> \o zero_pad(dec(dboard_id), 4)]
    ELSE [ok |-> TRUE, ctor |-> dict_get(i2c, dboard_id), what |-> <<>>]

\* get_dboard_ctor, lines 116-128: the constructor, or the runtime_error thrown.
get_dboard_ctor(i2c, dboard_id, xx_type) ==
    IF ~dict_has_key(i2c, dboard_id)
    THEN [ok |-> FALSE, ctor |-> NoValue,
          what |-> <<"Unknown", xx_type, "dboard id:", "0x">> \o format_04x(dboard_id)]
    ELSE [ok |-> TRUE, ctor |-> dict_get(i2c, dboard_id), what |-> <<>>]

\* -------------------------------------------------------------------------
\* The driver base class (uhd::usrp::dboard::base) and the dboard interface
\* are collaborators of manager.cpp.  A driver instance holds one board
\* state that its rx_set / tx_set handlers write and its rx_get / tx_get
\* handlers read; the interface's register writes are recorded as events.
\* -------------------------------------------------------------------------
GPIO_RX_BANK == "GPIO_RX_BANK"

GPIO_TX_BANK == "GPIO_TX_BANK"

base_rx_set(inst, val) == [inst EXCEPT !.val = val]

base_tx_set(inst, val) == [inst EXCEPT !.val = val]

base_rx_get(inst) == inst.val

base_tx_get(inst) == inst.val

\* -------------------------------------------------------------------------
\* manager.cpp: subdev_proxy, lines 77-111.  A proxy is [subdev, type]:
\* subdev is the shared pointer (an index into the manager's heap of driver
\* instances), type the direction tag.
\* -------------------------------------------------------------------------
RX_TYPE == "RX_TYPE"

TX_TYPE == "TX_TYPE"

subdev_proxy(subdev, type) == [subdev |-> subdev, type |-> type]

proxy_get(heap, proxy) ==
    IF proxy.type = RX_TYPE THEN base_rx_get(heap[proxy.subdev])
    ELSE base_tx_get(heap[proxy.subdev])

proxy_set(heap, proxy, val) ==
    IF proxy.type = RX_TYPE
    THEN [heap EXCEPT ![proxy.subdev] = base_rx_set(heap[proxy.subdev], val)]
    ELSE [heap EXCEPT ![proxy.subdev] = base_tx_set(heap[proxy.subdev], val)]

\* -------------------------------------------------------------------------
\* manager.cpp: manager::manager, lines 130-189
\* -------------------------------------------------------------------------
NoManager ==
    [state |-> "none", rx_id |-> NoValue, tx_id |-> NoValue,
     _rx_dboards |-> <<>>, _tx_dboards |-> <<>>, heap |-> <<>>,
     what |-> <<>>, events |-> <<>>, known_at |-> {}, nsets |-> 0]

\* dboard_ctor(ctor_args_t(name, dboard_interface)): a new driver instance
call_ctor(M, ctor, name) ==
    [M EXCEPT !.heap = Append(M.heap, [ctor |-> ctor, name |-> name, val |-> 0]),
              !.events = Append(M.events, [op |-> "ctor", ctor |-> ctor, name |-> name])]

\* an initialisation that writes ones to the direction registers
init_gpio_ddr_ones(M) ==
    [M EXCEPT !.events = M.events \o
        << [op |-> "set_gpio_ddr", bank |-> GPIO_RX_BANK, value |-> 65535, mask |-> 65535],
           [op |-> "set_gpio_ddr", bank |-> GPIO_TX_BANK, value |-> 65535, mask |-> 65535],
           [op |-> "write_gpio", bank |-> GPIO_RX_BANK, value |-> 0, mask |-> 65535],
           [op |-> "write_gpio", bank |-> GPIO_TX_BANK, value |-> 0, mask |-> 65535],
           [op |-> "set_atr_reg", bank |-> GPIO_RX_BANK, tx |-> 0, rx |-> 0, mask |-> 0],
           [op |-> "set_atr_reg", bank |-> GPIO_TX_BANK, tx |-> 0, rx |-> 0, mask |-> 0] >>]

\* lines 139-147
init_gpio(M) ==
    [M EXCEPT !.events = M.events \o
        << [op |-> "set_gpio_ddr", bank |-> GPIO_RX_BANK, value |-> 0, mask |-> 65535],
           [op |-> "set_gpio_ddr", bank |-> GPIO_TX_BANK, value |-> 0, mask |-> 65535],
           [op |-> "write_gpio", bank |-> GPIO_RX_BANK, value |-> 0, mask |-> 65535],
           [op |-> "write_gpio", bank |-> GPIO_TX_BANK, value |-> 0, mask |-> 65535],
           [op |-> "set_atr_reg", bank |-> GPIO_RX_BANK, tx |-> 0, rx |-> 0, mask |-> 0],
           [op |-> "set_atr_reg", bank |-> GPIO_TX_BANK, tx |-> 0, rx |-> 0, mask |-> 0] >>]

\* lines 151-163, one iteration: one instance, a proxy for it in each map
xcvr_step(M, ctor, name) ==
    LET M1 == call_ctor(M, ctor, name)
        xcvr_dboard == Len(M1.heap)
    IN  [M1 EXCEPT
            !._rx_dboards = dict_set(M1._rx_dboards, name, subdev_proxy(xcvr_dboard, RX_TYPE)),
            !._tx_dboards = dict_set(M1._tx_dboards, name, subdev_proxy(xcvr_dboard, TX_TYPE))]

\* lines 169-177, one iteration
rx_step(M, ctor, name) ==
    LET M1 == call_ctor(M, ctor, name)
    IN  [M1 EXCEPT !._rx_dboards =
            dict_set(M1._rx_dboards, name, subdev_proxy(Len(M1.heap), RX_TYPE))]

\* lines 179-187, one iteration
tx_step(M, ctor, name) ==
    LET M1 == call_ctor(M, ctor, name)
    IN  [M1 EXCEPT !._tx_dboards =
            dict_set(M1._tx_dboards, name, subdev_proxy(Len(M1.heap), TX_TYPE))]

\* BOOST_FOREACH(std::string name, names) from position i on
RECURSIVE foreach_name(_, _, _, _, _)
foreach_name(M, kind, ctor, names, i) ==
    IF i > Len(names) THEN M
    ELSE LET M1 == CASE kind = "xcvr" -> xcvr_step(M, ctor, names[i])
                     [] kind = "rx"   -> rx_step(M, ctor, names[i])
                     [] OTHER         -> tx_step(M, ctor, names[i])
         IN  foreach_name(M1, kind, ctor, names, i + 1)

\* the branch taken as if the two constructors always differed
make_subdevs_always_separate(M, c2n, rx_dboard_ctor, tx_dboard_ctor) ==
    LET M1 == foreach_name(M, "rx", rx_dboard_ctor, dict_get(c2n, rx_dboard_ctor), 1)
    IN  foreach_name(M1, "tx", tx_dboard_ctor, dict_get(c2n, tx_dboard_ctor), 1)

\* the branch taken as if the two constructors were always the same
make_subdevs_always_xcvr(M, c2n, rx_dboard_ctor, tx_dboard_ctor) ==
    foreach_name(M, "xcvr", rx_dboard_ctor, dict_get(c2n, rx_dboard_ctor), 1)

\* lines 149-188: the branch on the two constructors
make_subdevs(M, c2n, rx_dboard_ctor, tx_dboard_ctor) ==
    IF rx_dboard_ctor = tx_dboard_ctor
    THEN foreach_name(M, "xcvr", rx_dboard_ctor, dict_get(c2n, rx_dboard_ctor), 1)
    ELSE LET M1 == foreach_name(M, "rx", rx_dboard_ctor, dict_get(c2n, rx_dboard_ctor), 1)
         IN  foreach_name(M1, "tx", tx_dboard_ctor, dict_get(c2n, tx_dboard_ctor), 1)

\* a constructor that makes the subdevices before it initialises the gpio
manager_ctor_gpio_last(R, rx_dboard_id, tx_dboard_id) ==
    LET R1 == register_internal_dboards(R)
        rx == get_dboard_ctor(R1.i2c, rx_dboard_id, "rx")
        tx == get_dboard_ctor(R1.i2c, tx_dboard_id, "tx")
        M0 == [NoManager EXCEPT !.rx_id = rx_dboard_id, !.tx_id = tx_dboard_id,
                                !.known_at = {id \in DboardIds : R1.hist.last[id] # NoValue}]
    IN  [R |-> R1,
         M |-> IF ~rx.ok THEN [M0 EXCEPT !.state = "failed", !.what = rx.what]
               ELSE IF ~tx.ok THEN [M0 EXCEPT !.state = "failed", !.what = tx.what]
               ELSE init_gpio(make_subdevs([M0 EXCEPT !.state = "ok"], R1.c2n, rx.ctor, tx.ctor))]

\* a constructor that initialises the gpio first and resolves tx before rx
manager_ctor_gpio_first(R, rx_dboard_id, tx_dboard_id) ==
    LET R1 == register_internal_dboards(R)
        rx == get_dboard_ctor(R1.i2c, rx_dboard_id, "rx")
        tx == get_dboard_ctor(R1.i2c, tx_dboard_id, "tx")
        M0 == [NoManager EXCEPT !.rx_id = rx_dboard_id, !.tx_id = tx_dboard_id,
                                !.known_at = {id \in DboardIds : R1.hist.last[id] # NoValue}]
    IN  [R |-> R1,
         M |-> IF ~tx.ok THEN [init_gpio(M0) EXCEPT !.state = "failed", !.what = tx.what]
               ELSE IF ~rx.ok THEN [init_gpio(M0) EXCEPT !.state = "failed", !.what = rx.what]
               ELSE make_subdevs([init_gpio(M0) EXCEPT !.state = "ok"],
                                 R1.c2n, rx.ctor, tx.ctor)]

\* The constructor on the registry R: the registry after seeding and the
\* manager built, or the error thrown (state "failed", what the message).
manager_ctor(R, rx_dboard_id, tx_dboard_id) ==
    LET R1 == register_internal_dboards(R)
        rx == get_dboard_ctor(R1.i2c, rx_dboard_id, "rx")
        tx == get_dboard_ctor(R1.i2c, tx_dboard_id, "tx")
        M0 == [NoManager EXCEPT !.rx_id = rx_dboard_id, !.tx_id = tx_dboard_id,
                                !.known_at = {id \in DboardIds : R1.hist.last[id] # NoValue}]
    IN  [R |-> R1,
         M |-> IF ~rx.ok THEN [M0 EXCEPT !.state = "failed", !.what = rx.what]
               ELSE IF ~tx.ok THEN [M0 EXCEPT !.state = "failed", !.what = tx.what]
               ELSE make_subdevs([init_gpio(M0) EXCEPT !.state = "ok"],
                                 R1.c2n, rx.ctor, tx.ctor)]

\* -------------------------------------------------------------------------
\* manager.cpp: get_rx_subdev and get_tx_subdev, lines 203-217
\* -------------------------------------------------------------------------
\* the outcome of a lookup: the manager after it, and the link or the error
found_subdev(M, proxy) ==
    [M |-> M, ok |-> TRUE, error |-> NoValue, what |-> <<>>, link |-> <<proxy>>]

unknown_subdev(M, xx, subdev_name) ==
    [M |-> M, ok |-> FALSE, error |-> "invalid_argument",
     what |-> <<"Unknown", xx, "subdev name", subdev_name>>, link |-> <<>>]

\* a lookup without the has_key test: operator[] files an empty entry
get_rx_subdev_unguarded(M, subdev_name) ==
    IF dict_has_key(M._rx_dboards, subdev_name)
    THEN found_subdev(M, dict_get(M._rx_dboards, subdev_name))
    ELSE found_subdev([M EXCEPT !._rx_dboards = dict_set(@, subdev_name, subdev_proxy(0, RX_TYPE))],
                      subdev_proxy(0, RX_TYPE))

\* lines 203-209
get_rx_subdev(M, subdev_name) ==
    IF ~dict_has_key(M._rx_dboards, subdev_name)
    THEN unknown_subdev(M, "rx", subdev_name)
    ELSE found_subdev(M, dict_get(M._rx_dboards, subdev_name))

\* lines 211-217
get_tx_subdev(M, subdev_name) ==
    IF ~dict_has_key(M._tx_dboards, subdev_name)
    THEN unknown_subdev(M, "tx", subdev_name)
    ELSE found_subdev(M, dict_get(M._tx_dboards, subdev_name))

\* -------------------------------------------------------------------------
\* The manager part as a state machine
\* -------------------------------------------------------------------------
Registry == [called |-> called, i2c |-> id_to_ctor_map, c2n |-> ctor_to_names_map,
             hist |-> reg_hist]

SetRegistry(R) ==
    /\ called' = R.called
    /\ id_to_ctor_map' = R.i2c
    /\ ctor_to_names_map' = R.c2n
    /\ reg_hist' = R.hist

NoSet == [dir |-> NoValue, name |-> NoValue, val |-> 0, other_has |-> FALSE, other_before |-> 0]

NoGet ==
    [dir |-> NoValue, name |-> NoValue, ok |-> FALSE, error |-> NoValue, what |-> <<>>,
     link |-> <<>>, rx_before |-> <<>>, tx_before |-> <<>>]

NoHistory == [last |-> [id \in DboardIds |-> NoValue],
              names |-> [id \in DboardIds |-> <<>>],
              ext |-> [id \in DboardIds |-> NoValue],
              n_ext |-> 0, n_seed |-> 0, seed_first |-> FALSE]

MgrIdle ==
    /\ called = FALSE
    /\ id_to_ctor_map = <<>>
    /\ ctor_to_names_map = <<>>
    /\ reg_hist = NoHistory
    /\ mgr = NoManager
    /\ last_set = NoSet
    /\ last_get = NoGet

\* A client (a driver library's static initialiser, or the application)
\* calls manager::register_subdevs.  A manager keeps no reference to the
\* registry (lines 150-187 copy what they need), so the model follows one
\* manager at a time, the one built from the current registry, and a
\* registration ends its observation.
RegisterSubdevs(dboard_id, dboard_ctor, subdev_names) ==
    /\ reg_hist.n_ext < MaxRegs
    /\ SetRegistry(register_subdevs(Registry, dboard_id, dboard_ctor, subdev_names))
    /\ mgr' = NoManager
    /\ last_set' = NoSet
    /\ last_get' = NoGet
    /\ UNCHANGED nonMgrVars

\* A motherboard implementation constructs a manager; an earlier one is dropped.
Construct(rx_dboard_id, tx_dboard_id) ==
    LET res == manager_ctor(Registry, rx_dboard_id, tx_dboard_id) IN
    /\ SetRegistry(res.R)
    /\ mgr' = res.M
    /\ last_set' = NoSet
    /\ last_get' = NoGet
    /\ UNCHANGED nonMgrVars

DboardsOf(M, dir) == IF dir = RX_TYPE THEN M._rx_dboards ELSE M._tx_dboards

OtherDir(dir) == IF dir = RX_TYPE THEN TX_TYPE ELSE RX_TYPE

\* A client sets a property through the proxy filed under name in the RX or
\* the TX map (the node that get_rx_subdev / get_tx_subdev links to).  The
\* k-th set of a manager writes the value k; a fresh driver instance holds 0.
ProxySet(dir, name) ==
    /\ mgr.state = "ok"
    /\ mgr.nsets < MaxSets
    /\ dict_has_key(DboardsOf(mgr, dir), name)
    /\ LET other == DboardsOf(mgr, OtherDir(dir))
           has == dict_has_key(other, name)
           val == mgr.nsets + 1
       IN  /\ last_set' = [dir |-> dir, name |-> name, val |-> val, other_has |-> has,
                           other_before |-> IF has THEN proxy_get(mgr.heap, dict_get(other, name))
                                            ELSE 0]
           /\ mgr' = [mgr EXCEPT
                        !.heap = proxy_set(mgr.heap, dict_get(DboardsOf(mgr, dir), name), val),
                        !.nsets = mgr.nsets + 1]
    /\ last_get' = NoGet
    /\ UNCHANGED <<called, id_to_ctor_map, ctor_to_names_map, reg_hist>>
    /\ UNCHANGED nonMgrVars

\* A client asks the manager for a subdevice by name.  The lookup reads the
\* two maps only, which no set through a proxy changes, so the lookups
\* followed are those made on a manager before the sets.
GetSubdev(dir, subdev_name) ==
    /\ mgr.state = "ok"
    /\ mgr.nsets = 0
    /\ LET res == IF dir = RX_TYPE THEN get_rx_subdev(mgr, subdev_name)
                                   ELSE get_tx_subdev(mgr, subdev_name)
       IN  /\ last_get' = [dir |-> dir, name |-> subdev_name, ok |-> res.ok,
                           error |-> res.error, what |-> res.what, link |-> res.link,
                           rx_before |-> mgr._rx_dboards, tx_before |-> mgr._tx_dboards]
           /\ mgr' = res.M
    /\ UNCHANGED <<called, id_to_ctor_map, ctor_to_names_map, reg_hist, last_set>>
    /\ UNCHANGED nonMgrVars

\* =========================================================================
\* multi_usrp.cpp: the facade over the device tree and the channel resolver
\* =========================================================================
\* The all-boards / all-channels sentinels are size_t(~0), larger than every
\* index; here the largest integer the checker represents.
ALL_MBOARDS == 2147483647

ALL_CHANS == 2147483647

MaxDsps == 2

\* the largest device the facade is run on
MaxFacBoards == 2

\* line 56 and line 71: max_allowed_error = 1.0, in tenths
MaxAllowedError == 10

\* actual minus target of a rate or frequency read back, in tenths
Deviations == {-11, 0, 6, 10, 15}

\* the subdevice specifications a board can be given (a list of db:sd pairs)
SubdevSpecs == {<<>>, <<"A:0">>, <<"A:0", "B:0">>}

RX_DIR == "rx"

TX_DIR == "tx"

\* std::vector::at(i): in range, and the element
at_ok(v, i) == i >= 0 /\ i < Len(v)

at(v, i) == v[i + 1]

\* line 252: the number of motherboard names of the device
dev_num_mboards(d) == Len(d.mboards)

\* a facade that keeps the specification each board had when it was made
get_subdev_spec_cached(d, dir, mboard) == <<"A:0">>

\* lines 281 and 387: a board's RX or TX subdevice specification
get_subdev_spec(d, dir, mboard) ==
    IF dir = RX_DIR THEN at(d.mboards, mboard).rx_subdev_spec
                    ELSE at(d.mboards, mboard).tx_subdev_spec

\* lines 285-291 and 395-401: the sum of the boards' specification sizes
RECURSIVE num_channels_from(_, _, _)
num_channels_from(d, dir, m) ==
    IF m < dev_num_mboards(d)
    THEN Len(get_subdev_spec(d, dir, m)) + num_channels_from(d, dir, m + 1)
    ELSE 0

get_rx_num_channels(d) == num_channels_from(d, RX_DIR, 0)

get_tx_num_channels(d) == num_channels_from(d, TX_DIR, 0)

\* a resolver that breaks on chan <= size
RECURSIVE chan_to_mcp_le(_, _, _)
chan_to_mcp_le(d, dir, mcp) ==
    IF mcp.mboard < dev_num_mboards(d)
    THEN LET sss == Len(get_subdev_spec(d, dir, mcp.mboard))
         IN  IF mcp.chan <= sss
             THEN mcp
             ELSE chan_to_mcp_le(d, dir, [mboard |-> mcp.mboard + 1, chan |-> mcp.chan - sss])
    ELSE mcp

\* lines 491-495 and 502-506: the loop of the resolver, from mcp on
RECURSIVE chan_to_mcp(_, _, _)
chan_to_mcp(d, dir, mcp) ==
    IF mcp.mboard < dev_num_mboards(d)
    THEN LET sss == Len(get_subdev_spec(d, dir, mcp.mboard))
         IN  IF mcp.chan < sss
             THEN mcp
             ELSE chan_to_mcp(d, dir, [mboard |-> mcp.mboard + 1, chan |-> mcp.chan - sss])
    ELSE mcp

\* lines 488-497
rx_chan_to_mcp(d, chan) == chan_to_mcp(d, RX_DIR, [mboard |-> 0, chan |-> chan])

\* lines 499-508
tx_chan_to_mcp(d, chan) == chan_to_mcp(d, TX_DIR, [mboard |-> 0, chan |-> chan])

xx_chan_to_mcp(d, dir, chan) ==
    IF dir = RX_DIR THEN rx_chan_to_mcp(d, chan) ELSE tx_chan_to_mcp(d, chan)

\* ---- one call on the facade: the device, the inputs, what it has done ----
\* dev: the device as the call sees and leaves it; bad: the boards whose
\* property writes fail; deviation: what a read-back differs by;
\* calls: the indices the single-index branch was entered with;
\* before (kept with the outcome): the device as it was when the call began;
\* writes: the property writes made; error: the exception in flight.
NewCall(d, bad, deviation) ==
    [dev |-> d, bad |-> bad, deviation |-> deviation,
     calls |-> <<>>, writes |-> <<>>, warnings |-> <<>>, error |-> NoValue]

throw(C, what) == IF C.error = NoValue THEN [C EXCEPT !.error = what] ELSE C

enter(C, index) == [C EXCEPT !.calls = Append(@, index)]

write(C, prop, mboard, unit, val) ==
    [C EXCEPT !.writes = Append(@, [prop |-> prop, mboard |-> mboard, unit |-> unit, val |-> val])]

\* lines 510-513: _mboard(mboard) is there
mboard_ok(C, mboard) == at_ok(C.dev.mboards, mboard)

\* _mboard(mboard)[prop] = val
mboard_prop_set(C, prop, val, mboard) ==
    IF C.error # NoValue THEN C
    ELSE IF ~mboard_ok(C, mboard) THEN throw(C, "out_of_range")
    ELSE IF mboard \in C.bad THEN throw(C, "hw_error")
    ELSE LET W == write(C, prop, mboard, <<>>, val)
         IN  CASE prop = "MBOARD_PROP_RX_SUBDEV_SPEC" ->
                    [W EXCEPT !.dev.mboards[mboard + 1].rx_subdev_spec = val]
               [] prop = "MBOARD_PROP_TX_SUBDEV_SPEC" ->
                    [W EXCEPT !.dev.mboards[mboard + 1].tx_subdev_spec = val]
               [] OTHER -> W

\* the single-index branch of a board setter
mboard_set_one(C, prop, val, mboard) == mboard_prop_set(enter(C, mboard), prop, val, mboard)

\* a loop over the boards that goes on after a failure
RECURSIVE for_mboards_keep_going(_, _, _, _)
for_mboards_keep_going(C, prop, val, m) ==
    IF m < dev_num_mboards(C.dev)
    THEN LET D == mboard_set_one([C EXCEPT !.error = NoValue], prop, val, m)
             E == IF C.error # NoValue THEN C.error ELSE D.error
         IN  for_mboards_keep_going([D EXCEPT !.error = E], prop, val, m + 1)
    ELSE C

\* for (size_t m = 0; m < get_num_mboards(); m++) set_xxx(val, m);
RECURSIVE for_mboards(_, _, _, _)
for_mboards(C, prop, val, m) ==
    IF C.error = NoValue /\ m < dev_num_mboards(C.dev)
    THEN for_mboards(mboard_set_one(C, prop, val, m), prop, val, m + 1)
    ELSE C

\* lines 97-105
set_master_clock_rate(C, rate, mboard) ==
    IF mboard # ALL_MBOARDS
    THEN mboard_set_one(C, "MBOARD_PROP_CLOCK_RATE", rate, mboard)
    ELSE for_mboards(C, "MBOARD_PROP_CLOCK_RATE", rate, 0)

\* lines 174-182
set_time_now(C, time_spec, mboard) ==
    IF mboard # ALL_MBOARDS
    THEN mboard_set_one(C, "MBOARD_PROP_TIME_NOW", time_spec, mboard)
    ELSE for_mboards(C, "MBOARD_PROP_TIME_NOW", time_spec, 0)

\* lines 242-250
set_clock_config(C, clock_config, mboard) ==
    IF mboard # ALL_MBOARDS
    THEN mboard_set_one(C, "MBOARD_PROP_CLOCK_CONFIG", clock_config, mboard)
    ELSE for_mboards(C, "MBOARD_PROP_CLOCK_CONFIG", clock_config, 0)

\* lines 271-279
set_rx_subdev_spec(C, spec, mboard) ==
    IF mboard # ALL_MBOARDS
    THEN mboard_set_one(C, "MBOARD_PROP_RX_SUBDEV_SPEC", spec, mboard)
    ELSE for_mboards(C, "MBOARD_PROP_RX_SUBDEV_SPEC", spec, 0)

\* lines 377-385
set_tx_subdev_spec(C, spec, mboard) ==
    IF mboard # ALL_MBOARDS
    THEN mboard_set_one(C, "MBOARD_PROP_TX_SUBDEV_SPEC", spec, mboard)
    ELSE for_mboards(C, "MBOARD_PROP_TX_SUBDEV_SPEC", spec, 0)
\* ---- the channel setters ----
\* lines 514-523: _rx_dsp(chan) / _tx_dsp(chan) is there
dsp_ok(C, dir, chan) ==
    LET mcp == xx_chan_to_mcp(C.dev, dir, chan)
    IN  mboard_ok(C, mcp.mboard) /\ mcp.chan < C.dev.num_dsps

\* lines 534-553: _rx_subdev(chan), _rx_gain_group(chan) and the TX ones are there
subdev_ok(C, dir, chan) ==
    LET mcp == xx_chan_to_mcp(C.dev, dir, chan)
    IN  IF mboard_ok(C, mcp.mboard)
        THEN at_ok(get_subdev_spec(C.dev, dir, mcp.mboard), mcp.chan)
        ELSE FALSE

\* _rx_dsp(chan)[prop] = val, _tx_dsp(chan)[prop] = val
dsp_prop_set(C, dir, prop, val, chan) ==
    LET mcp == xx_chan_to_mcp(C.dev, dir, chan)
    IN  IF C.error # NoValue THEN C
        ELSE IF ~dsp_ok(C, dir, chan) THEN throw(C, "out_of_range")
        ELSE IF mcp.mboard \in C.bad THEN throw(C, "hw_error")
        ELSE write(C, prop, mcp.mboard, <<dir, "dsp", mcp.chan>>, val)

\* _rx_dsp(chan)[prop].as<T>(), _tx_dsp(chan)[prop].as<T>(): a read
dsp_prop_get(C, dir, prop, chan) ==
    IF C.error # NoValue THEN C
    ELSE IF ~dsp_ok(C, dir, chan) THEN throw(C, "out_of_range")
    ELSE C

\* _rx_subdev(chan)[prop].as<T>(), _tx_subdev(chan)[prop].as<T>(): a read
subdev_prop_get(C, dir, prop, chan) ==
    IF C.error # NoValue THEN C
    ELSE IF ~subdev_ok(C, dir, chan) THEN throw(C, "out_of_range")
    ELSE C

\* a subdevice write that does not look the channel up first
subdev_prop_set_unchecked(C, dir, prop, val, chan) ==
    LET mcp == xx_chan_to_mcp(C.dev, dir, chan)
    IN  write(C, prop, mcp.mboard, <<dir, "subdev", mcp.chan>>, val)

\* _rx_subdev(chan)[prop] = val, _rx_gain_group(chan)->set_value(val, name)
subdev_prop_set(C, dir, prop, val, chan) ==
    LET mcp == xx_chan_to_mcp(C.dev, dir, chan)
    IN  IF C.error # NoValue THEN C
        ELSE IF ~subdev_ok(C, dir, chan) THEN throw(C, "out_of_range")
        ELSE IF mcp.mboard \in C.bad THEN throw(C, "hw_error")
        ELSE write(C, prop, mcp.mboard, <<dir, "subdev", mcp.chan>>, val)

abs(x) == IF x < 0 THEN -x ELSE x

\* the "RX" or "TX" given to the warning helpers (lines 300, 314, 406, 420)
XX(dir) == IF dir = RX_DIR THEN "RX" ELSE "TX"

\* a rate warning given from an error of 1.0 on
do_samp_rate_warning_message_ge(C, target_rate, actual_rate, xx) ==
    IF C.error = NoValue /\ abs(target_rate - actual_rate) >= MaxAllowedError
    THEN [C EXCEPT !.warnings = Append(@, <<xx, "sample rate", target_rate, actual_rate>>)]
    ELSE C

\* lines 51-64
do_samp_rate_warning_message(C, target_rate, actual_rate, xx) ==
    IF C.error = NoValue /\ abs(target_rate - actual_rate) > MaxAllowedError
    THEN [C EXCEPT !.warnings = Append(@, <<xx, "sample rate", target_rate, actual_rate>>)]
    ELSE C

\* lines 66-79
do_tune_freq_warning_message(C, target_freq, actual_freq, xx) ==
    IF C.error = NoValue /\ abs(target_freq - actual_freq) > MaxAllowedError
    THEN [C EXCEPT !.warnings = Append(@, <<xx, "frequency", target_freq, actual_freq>>)]
    ELSE C

\* lines 308-310 and 414-416: the rate the DSP reports after the write
get_xx_rate(C, rate) == rate + C.deviation

\* lines 318-320 and 424-426: the frequency subdevice and DSP report
get_xx_freq(C, target_freq) == target_freq + C.deviation

\* lines 299-300 and 405-406: the single-channel branch of set_rx/tx_rate
set_xx_rate_one(C, dir, rate, chan) ==
    LET W == dsp_prop_set(enter(C, chan), dir, "DSP_PROP_HOST_RATE", rate, chan)
    IN  do_samp_rate_warning_message(W, rate, get_xx_rate(W, rate), XX(dir))

\* line 234: the single-channel branch of issue_stream_cmd
issue_stream_cmd_one(C, stream_cmd, chan) ==
    dsp_prop_set(enter(C, chan), RX_DIR, "DSP_PROP_STREAM_CMD", stream_cmd, chan)

chan_set_one(C, dir, prop, val, c) ==
    IF prop = "DSP_PROP_HOST_RATE"
    THEN set_xx_rate_one(C, dir, val, c)
    ELSE issue_stream_cmd_one(C, val, c)

\* a loop over the channels that undoes its writes when a channel fails
RECURSIVE for_chans_undo(_, _, _, _, _)
for_chans_undo(C, dir, prop, val, c) ==
    IF C.error = NoValue /\ c < num_channels_from(C.dev, dir, 0)
    THEN LET D == chan_set_one(C, dir, prop, val, c)
         IN  IF D.error # NoValue
             THEN [D EXCEPT !.writes = <<>>]
             ELSE for_chans_undo(D, dir, prop, val, c + 1)
    ELSE C

\* for (size_t c = 0; c < get_rx_num_channels(); c++) set_xxx(val, c);
RECURSIVE for_chans(_, _, _, _, _)
for_chans(C, dir, prop, val, c) ==
    IF C.error = NoValue /\ c < num_channels_from(C.dev, dir, 0)
    THEN for_chans(chan_set_one(C, dir, prop, val, c), dir, prop, val, c + 1)
    ELSE C

\* lines 297-306
set_rx_rate(C, rate, chan) ==
    IF chan # ALL_CHANS
    THEN set_xx_rate_one(C, RX_DIR, rate, chan)
    ELSE for_chans(C, RX_DIR, "DSP_PROP_HOST_RATE", rate, 0)

\* lines 403-412
set_tx_rate(C, rate, chan) ==
    IF chan # ALL_CHANS
    THEN set_xx_rate_one(C, TX_DIR, rate, chan)
    ELSE for_chans(C, TX_DIR, "DSP_PROP_HOST_RATE", rate, 0)

\* lines 232-240
issue_stream_cmd(C, stream_cmd, chan) ==
    IF chan # ALL_CHANS
    THEN issue_stream_cmd_one(C, stream_cmd, chan)
    ELSE for_chans(C, RX_DIR, "DSP_PROP_STREAM_CMD", stream_cmd, 0)

\* lines 312-316 and 418-422: both the subdevice and the DSP are looked up,
\* the tune helper writes the subdevice's and the DSP's frequency, and the
\* frequency read back is compared with the target
set_xx_freq(C, dir, target_freq, chan) ==
    LET E == enter(C, chan)
        T == IF ~subdev_ok(E, dir, chan) \/ ~dsp_ok(E, dir, chan)
             THEN throw(E, "out_of_range")
             ELSE dsp_prop_set(subdev_prop_set(E, dir, "SUBDEV_PROP_FREQ", target_freq, chan),
                               dir, "DSP_PROP_FREQ_SHIFT", 0, chan)
    IN  do_tune_freq_warning_message(T, target_freq, get_xx_freq(T, target_freq), XX(dir))

set_rx_freq(C, target_freq, chan) == set_xx_freq(C, RX_DIR, target_freq, chan)

set_tx_freq(C, target_freq, chan) == set_xx_freq(C, TX_DIR, target_freq, chan)

\* lines 326-328 and 432-434
set_rx_gain(C, gain, chan) ==
    subdev_prop_set(enter(C, chan), RX_DIR, "DBOARD_PROP_GAIN_GROUP", gain, chan)

set_tx_gain(C, gain, chan) ==
    subdev_prop_set(enter(C, chan), TX_DIR, "DBOARD_PROP_GAIN_GROUP", gain, chan)

\* an antenna setter that fans out on the all-channels value
set_rx_antenna_fan_out(C, ant, chan) ==
    IF chan # ALL_CHANS
    THEN subdev_prop_set(enter(C, chan), RX_DIR, "SUBDEV_PROP_ANTENNA", ant, chan)
    ELSE LET n == get_rx_num_channels(C.dev)
             W == [k \in 1..n |-> [prop |-> "SUBDEV_PROP_ANTENNA",
                                   mboard |-> rx_chan_to_mcp(C.dev, k - 1).mboard,
                                   unit |-> <<RX_DIR, "subdev", rx_chan_to_mcp(C.dev, k - 1).chan>>,
                                   val |-> ant]]
         IN  [C EXCEPT !.calls = [k \in 1..n |-> k - 1], !.writes = W]

\* lines 342-344 and 448-450
set_rx_antenna(C, ant, chan) ==
    subdev_prop_set(enter(C, chan), RX_DIR, "SUBDEV_PROP_ANTENNA", ant, chan)

set_tx_antenna(C, ant, chan) ==
    subdev_prop_set(enter(C, chan), TX_DIR, "SUBDEV_PROP_ANTENNA", ant, chan)

\* lines 354-356 and 460-462
set_rx_bandwidth(C, bandwidth, chan) ==
    subdev_prop_set(enter(C, chan), RX_DIR, "SUBDEV_PROP_BANDWIDTH", bandwidth, chan)

set_tx_bandwidth(C, bandwidth, chan) ==
    subdev_prop_set(enter(C, chan), TX_DIR, "SUBDEV_PROP_BANDWIDTH", bandwidth, chan)

\* lines 308-310 and 414-416
get_rx_rate(C, chan) == dsp_prop_get(enter(C, chan), RX_DIR, "DSP_PROP_HOST_RATE", chan)

get_tx_rate(C, chan) == dsp_prop_get(enter(C, chan), TX_DIR, "DSP_PROP_HOST_RATE", chan)

\* lines 346-348 and 452-454
get_rx_antenna(C, chan) == subdev_prop_get(enter(C, chan), RX_DIR, "SUBDEV_PROP_ANTENNA", chan)

get_tx_antenna(C, chan) == subdev_prop_get(enter(C, chan), TX_DIR, "SUBDEV_PROP_ANTENNA", chan)

\* ---- get_pp_string, lines 111-160 ----
\* lines 130-139 and 146-155: the text of one channel, which reads the names
\* of the channel's DSP, daughterboard and subdevice
pp_channel(C, dir, chan) ==
    LET C1 == dsp_prop_get(enter(C, <<dir, chan>>), dir, "DSP_PROP_NAME", chan)
        C2 == subdev_prop_get(C1, dir, "DBOARD_PROP_NAME", chan)
    IN  subdev_prop_get(C2, dir, "SUBDEV_PROP_NAME", chan)

\* lines 128-141 and 144-157: for (m = 0, chan = 0; m < get_num_mboards(); m++)
\*     for (; chan < (m + 1)*get_rx_subdev_spec(m).size(); chan++)
RECURSIVE pp_channels(_, _, _, _)
pp_channels(C, dir, m, chan) ==
    IF C.error # NoValue \/ m >= dev_num_mboards(C.dev) THEN C
    ELSE IF chan < (m + 1) * Len(get_subdev_spec(C.dev, dir, m))
    THEN pp_channels(pp_channel(C, dir, chan), dir, m, chan + 1)
    ELSE pp_channels(C, dir, m + 1, chan)

\* lines 111-160; the header (lines 112-125) reads the name of each board
\* 0 .. get_num_mboards()-1, which is there
get_pp_string(C) == pp_channels(pp_channels(C, RX_DIR, 0, 0), TX_DIR, 0, 0)

\* ---- the facade as a state machine: one action per call ----
NoDevice == [mboards |-> <<>>, num_dsps |-> 0]

NoFacCall ==
    [op |-> NoValue, index |-> 0, bad |-> {}, deviation |-> 0,
     calls |-> <<>>, writes |-> <<>>, warnings |-> <<>>, error |-> NoValue,
     mcp |-> [mboard |-> 0, chan |-> 0], count |-> 0, before |-> NoDevice]

FacIdle == dev = NoDevice /\ fc = NoFacCall

\* the arguments tried: every index up to one past the last, and the sentinel
MboardArgs == 0..dev_num_mboards(dev) \cup {ALL_MBOARDS}

RxChanArgs == 0..get_rx_num_channels(dev) \cup {ALL_CHANS}

TxChanArgs == 0..get_tx_num_channels(dev) \cup {ALL_CHANS}

\* no board's writes fail, or one board's do
BadSets == {{}} \cup {{m} : m \in 0..(dev_num_mboards(dev) - 1)}

TargetRate == 2500

Finish(op, index, C) ==
    /\ fc.op = NoValue
    /\ fc' = [op |-> op, index |-> index, bad |-> C.bad, deviation |-> C.deviation,
              calls |-> C.calls, writes |-> C.writes, warnings |-> C.warnings,
              error |-> C.error, mcp |-> [mboard |-> 0, chan |-> 0], count |-> 0,
              before |-> dev]
    /\ dev' = C.dev
    /\ UNCHANGED nonFacVars

SetMasterClockRate(mboard, bad) ==
    Finish("set_master_clock_rate", mboard,
           set_master_clock_rate(NewCall(dev, bad, 0), TargetRate, mboard))

SetTimeNow(mboard, bad) ==
    Finish("set_time_now", mboard, set_time_now(NewCall(dev, bad, 0), 0, mboard))

SetClockConfig(mboard, bad) ==
    Finish("set_clock_config", mboard,
           set_clock_config(NewCall(dev, bad, 0), "external", mboard))

SetRxSubdevSpec(spec, mboard, bad) ==
    Finish("set_rx_subdev_spec", mboard, set_rx_subdev_spec(NewCall(dev, bad, 0), spec, mboard))

SetTxSubdevSpec(spec, mboard, bad) ==
    Finish("set_tx_subdev_spec", mboard, set_tx_subdev_spec(NewCall(dev, bad, 0), spec, mboard))

SetRxRate(chan, bad, deviation) ==
    Finish("set_rx_rate", chan, set_rx_rate(NewCall(dev, bad, deviation), TargetRate, chan))

SetTxRate(chan, bad, deviation) ==
    Finish("set_tx_rate", chan, set_tx_rate(NewCall(dev, bad, deviation), TargetRate, chan))

IssueStreamCmd(chan, bad) ==
    Finish("issue_stream_cmd", chan,
           issue_stream_cmd(NewCall(dev, bad, 0), "start_continuous", chan))

SetRxFreq(chan, deviation) ==
    Finish("set_rx_freq", chan, set_rx_freq(NewCall(dev, {}, deviation), TargetRate, chan))

SetTxFreq(chan, deviation) ==
    Finish("set_tx_freq", chan, set_tx_freq(NewCall(dev, {}, deviation), TargetRate, chan))

SetRxGain(chan) == Finish("set_rx_gain", chan, set_rx_gain(NewCall(dev, {}, 0), 5, chan))

SetTxGain(chan) == Finish("set_tx_gain", chan, set_tx_gain(NewCall(dev, {}, 0), 5, chan))

SetRxAntenna(chan) ==
    Finish("set_rx_antenna", chan, set_rx_antenna(NewCall(dev, {}, 0), "TX/RX", chan))

SetTxAntenna(chan) ==
    Finish("set_tx_antenna", chan, set_tx_antenna(NewCall(dev, {}, 0), "TX/RX", chan))

SetRxBandwidth(chan) ==
    Finish("set_rx_bandwidth", chan, set_rx_bandwidth(NewCall(dev, {}, 0), TargetRate, chan))

SetTxBandwidth(chan) ==
    Finish("set_tx_bandwidth", chan, set_tx_bandwidth(NewCall(dev, {}, 0), TargetRate, chan))

GetRxRate(chan) == Finish("get_rx_rate", chan, get_rx_rate(NewCall(dev, {}, 0), chan))

GetTxRate(chan) == Finish("get_tx_rate", chan, get_tx_rate(NewCall(dev, {}, 0), chan))

GetRxAntenna(chan) == Finish("get_rx_antenna", chan, get_rx_antenna(NewCall(dev, {}, 0), chan))

GetTxAntenna(chan) == Finish("get_tx_antenna", chan, get_tx_antenna(NewCall(dev, {}, 0), chan))

\* a call of the resolver alone, with its result
RxChanToMcp(chan) ==
    /\ fc.op = NoValue
    /\ fc' = [NoFacCall EXCEPT !.op = "rx_chan_to_mcp", !.index = chan,
                               !.mcp = rx_chan_to_mcp(dev, chan)]
    /\ UNCHANGED <<dev, nonFacVars>>

TxChanToMcp(chan) ==
    /\ fc.op = NoValue
    /\ fc' = [NoFacCall EXCEPT !.op = "tx_chan_to_mcp", !.index = chan,
                               !.mcp = tx_chan_to_mcp(dev, chan)]
    /\ UNCHANGED <<dev, nonFacVars>>

GetPpString == Finish("get_pp_string", 0, get_pp_string(NewCall(dev, {}, 0)))

\* a call of get_rx_num_channels / get_tx_num_channels, with its result
GetRxNumChannels ==
    /\ fc.op = NoValue
    /\ fc' = [NoFacCall EXCEPT !.op = "get_rx_num_channels",
                               !.count = get_rx_num_channels(dev), !.before = dev]
    /\ UNCHANGED <<dev, nonFacVars>>

GetTxNumChannels ==
    /\ fc.op = NoValue
    /\ fc' = [NoFacCall EXCEPT !.op = "get_tx_num_channels",
                               !.count = get_tx_num_channels(dev), !.before = dev]
    /\ UNCHANGED <<dev, nonFacVars>>

\* the caller takes the outcome of the call; the facade is ready for the next
Return ==
    /\ fc.op # NoValue
    /\ fc' = NoFacCall
    /\ UNCHANGED <<dev, nonFacVars>>

\* =========================================================================
\* multi_usrp.cpp: time synchronisation.  Time values are counted in units of
\* 10 ms; a time_spec_t is the integer count.
\* =========================================================================
\* time_spec_t(1.1), line 196
TimeoutTicks == 110

\* time_spec_t(0.01), lines 213 and 227
ToleranceTicks == 1

\* boost::posix_time::seconds(1), line 207
SettleTicks == 100

\* The largest number of motherboards of a device in the model.
MaxBoards == 3

\* What a board's clock may show relative to board 0's when a call starts.
Skews == {-1, 0}

\* The time values a caller passes to set_time_unknown_pps.
TimeSpecs == {0, 7}

\* How far the boards' clocks advance between two polls of the wait loop,
\* and between two other successive property accesses.
WaitSteps == {55, 56}

ReadSteps == {1, 2}

Boards == 1..Len(hw.now)

\* get_num_mboards, lines 252-254
get_num_mboards == Len(hw.now)

\* get_time_now / get_time_last_pps, lines 166-172 (mboard is 0-based)
get_time_now(mboard) == hw.now[mboard + 1]

get_time_last_pps(mboard) == hw.pps[mboard + 1]

\* a deviation test that finds no pair deviating
deviates_never(time_0, time_i) == FALSE

\* the deviation test with the 10 ms bound applied on both sides
deviates_symmetric(time_0, time_i) ==
    (time_0 - time_i) > ToleranceTicks \/ (time_i - time_0) > ToleranceTicks

\* lines 213 and 227: the deviation test on a pair of readings
deviates(time_0, time_i) == time_i < time_0 \/ (time_i - time_0) > ToleranceTicks

NoCall ==
    [op |-> NoValue, pc |-> "idle", time_spec |-> 0, time_start |-> 0,
     time_start_last_pps |-> 0, m |-> 0, time_0 |-> 0,
     result |-> NoValue, warnings |-> <<>>, arm_writes |-> <<>>, pairs |-> <<>>,
     last_now |-> 0, pps_seen |-> FALSE, ticked |-> FALSE, trace |-> <<>>,
     clocks_0 |-> <<>>]

\* a pair of readings of the verification loops, with what every board's
\* clock showed when board 0 was read (clocks_0) and when board m was
\* (clocks_i)
Pair(m, time_0, time_i, clocks_0, clocks_i) ==
    [m |-> m, time_0 |-> time_0, time_i |-> time_i,
     clocks_0 |-> clocks_0, clocks_i |-> clocks_i]

\* an entry of the call's trace: what was done, and on which board
Ev(ev, m) == [ev |-> ev, m |-> m]

TimeIdle ==
    /\ hw = [now |-> <<>>, pps |-> <<>>, armed |-> <<>>, wired |-> {}]
    /\ tc = NoCall

Waiting == tc.pc \in {"s195", "s196"}

Running == tc.pc \notin {"idle", "done", "timeout"}

\* ---- the environment: the boards' clocks and the PPS signal ----
\* All clocks advance by d.  In the wait loop the clock is followed until it
\* has passed the timeout; in the verification loops the clocks may advance
\* once between the reading of board 0 and the reading of board m.
Tick(d) ==
    /\ IF Waiting
       THEN d \in WaitSteps /\ get_time_now(0) - tc.time_start <= TimeoutTicks
       ELSE d \in ReadSteps /\ tc.pc \in {"s212", "g226"} /\ ~tc.ticked
    /\ hw' = [hw EXCEPT !.now = [b \in Boards |-> hw.now[b] + d]]
    /\ tc' = [tc EXCEPT !.ticked = TRUE]
    /\ UNCHANGED nonTimeVars

\* A PPS edge reaches the boards that are wired to the PPS source: each
\* latches its time (read back as "time at last PPS") and, if armed, loads
\* the armed value into its clock.
PpsEdge ==
    /\ Running
    /\ tc.op = "set_time_unknown_pps"
    /\ hw' = [hw EXCEPT
                !.now   = [b \in Boards |-> IF b \in hw.wired /\ hw.armed[b] # <<>>
                                            THEN hw.armed[b][1] ELSE hw.now[b]],
                !.pps   = [b \in Boards |-> IF b \in hw.wired
                                            THEN (IF hw.armed[b] # <<>> THEN hw.armed[b][1]
                                                  ELSE hw.now[b])
                                            ELSE hw.pps[b]],
                !.armed = [b \in Boards |-> IF b \in hw.wired THEN <<>> ELSE hw.armed[b]]]
    /\ hw' # hw
    /\ UNCHANGED tc
    /\ UNCHANGED nonTimeVars

\* ---- set_time_unknown_pps, lines 190-221, and set_time_next_pps, 184-188 ----
Step(next) == tc' = [next EXCEPT !.ticked = FALSE]

StartSync(time_spec) ==
    /\ tc.pc = "idle"
    /\ Step([tc EXCEPT !.op = "set_time_unknown_pps", !.pc = "s192", !.time_spec = time_spec])
    /\ UNCHANGED hw
    /\ UNCHANGED nonTimeVars

\* line 192
S192 ==
    /\ tc.pc = "s192"
    /\ Step([tc EXCEPT !.time_start = get_time_now(0), !.pc = "s193"])
    /\ UNCHANGED hw
    /\ UNCHANGED nonTimeVars

\* line 193
S193 ==
    /\ tc.pc = "s193"
    /\ Step([tc EXCEPT !.time_start_last_pps = get_time_last_pps(0), !.pc = "s195"])
    /\ UNCHANGED hw
    /\ UNCHANGED nonTimeVars

\* line 195: leave the loop when board 0's last-PPS value has changed
pps_changed(last_pps, time_start_last_pps) == last_pps # time_start_last_pps

S195 ==
    /\ tc.pc = "s195"
    /\ IF pps_changed(get_time_last_pps(0), tc.time_start_last_pps)
       THEN Step([tc EXCEPT !.pc = "s186", !.m = 0, !.pps_seen = TRUE,
                            !.trace = Append(tc.trace, Ev("pps", 0))])
       ELSE Step([tc EXCEPT !.pc = "s196"])
    /\ UNCHANGED hw
    /\ UNCHANGED nonTimeVars

\* lines 196-202: the timeout test of the wait loop
timed_out_never(time_now, time_start) == FALSE

timed_out_at_11s(time_now, time_start) == (time_now - time_start) > 10 * TimeoutTicks

timed_out(time_now, time_start) == (time_now - time_start) > TimeoutTicks

S196 ==
    /\ tc.pc = "s196"
    /\ LET time_now == get_time_now(0) IN
       IF timed_out(time_now, tc.time_start)
       THEN Step([tc EXCEPT !.pc = "timeout", !.result = "runtime_error", !.last_now = time_now])
       ELSE Step([tc EXCEPT !.pc = "s195", !.last_now = time_now])
    /\ UNCHANGED hw
    /\ UNCHANGED nonTimeVars

\* lines 185-187, one iteration; line 206 calls the loop
S186 ==
    /\ tc.pc = "s186"
    /\ tc.m < get_num_mboards
    /\ hw' = [hw EXCEPT !.armed[tc.m + 1] = <<tc.time_spec>>]
    /\ Step([tc EXCEPT !.arm_writes = Append(tc.arm_writes, [mboard |-> tc.m, time |-> tc.time_spec]),
                       !.trace = Append(tc.trace, Ev("arm", tc.m)),
                       !.m = tc.m + 1,
                       !.pc = IF tc.m + 1 < get_num_mboards THEN "s186" ELSE "s207"])
    /\ UNCHANGED nonTimeVars

\* the call going on to the verification without the sleep
S207_no_sleep ==
    /\ tc.pc = "s207"
    /\ UNCHANGED hw
    /\ Step([tc EXCEPT !.m = 1,
                       !.pc = IF 1 < get_num_mboards THEN "s211" ELSE "done",
                       !.result = IF 1 < get_num_mboards THEN tc.result ELSE "ok"])
    /\ UNCHANGED nonTimeVars

\* line 207: the host sleeps for one second while the boards' clocks run
S207 ==
    /\ tc.pc = "s207"
    /\ hw' = [hw EXCEPT !.now = [b \in Boards |-> hw.now[b] + SettleTicks]]
    /\ Step([tc EXCEPT !.m = 1,
                       !.trace = Append(tc.trace, Ev("settle", 0)),
                       !.pc = IF 1 < get_num_mboards THEN "s211" ELSE "done",
                       !.result = IF 1 < get_num_mboards THEN tc.result ELSE "ok"])
    /\ UNCHANGED nonTimeVars

\* a loop that reads board 0 once, before the first pair
S211_read_once ==
    /\ tc.pc = "s211"
    /\ Step([tc EXCEPT !.time_0 = IF tc.m = 1 THEN get_time_now(0) ELSE tc.time_0,
                       !.pc = "s212", !.clocks_0 = hw.now,
                       !.trace = Append(tc.trace, Ev("read", 0))])
    /\ UNCHANGED hw
    /\ UNCHANGED nonTimeVars

\* line 211
S211 ==
    /\ tc.pc = "s211"
    /\ Step([tc EXCEPT !.time_0 = get_time_now(0), !.pc = "s212", !.clocks_0 = hw.now,
                       !.trace = Append(tc.trace, Ev("read", 0))])
    /\ UNCHANGED hw
    /\ UNCHANGED nonTimeVars

\* lines 212-219, and the loop's increment and test
S212 ==
    /\ tc.pc = "s212"
    /\ LET time_i == get_time_now(tc.m)
           more == tc.m + 1 < get_num_mboards
       IN  Step([tc EXCEPT
                   !.pairs = Append(tc.pairs, Pair(tc.m, tc.time_0, time_i, tc.clocks_0, hw.now)),
                   !.warnings = IF deviates(tc.time_0, time_i)
                                THEN Append(tc.warnings, tc.m) ELSE tc.warnings,
                   !.trace = Append(tc.trace, Ev("read", tc.m)),
                   !.m = tc.m + 1,
                   !.pc = IF more THEN "s211" ELSE "done",
                   !.result = IF more THEN tc.result ELSE "ok"])
    /\ UNCHANGED hw
    /\ UNCHANGED nonTimeVars

\* ---- get_time_synchronized, lines 223-230 ----
StartQuery ==
    /\ tc.pc = "idle"
    /\ Step([NoCall EXCEPT !.op = "get_time_synchronized", !.m = 1,
                           !.pc = IF 1 < get_num_mboards THEN "g225" ELSE "done",
                           !.result = IF 1 < get_num_mboards THEN NoValue ELSE "true"])
    /\ UNCHANGED hw
    /\ UNCHANGED nonTimeVars

\* line 225
G225 ==
    /\ tc.pc = "g225"
    /\ Step([tc EXCEPT !.time_0 = get_time_now(0), !.pc = "g226", !.clocks_0 = hw.now])
    /\ UNCHANGED hw
    /\ UNCHANGED nonTimeVars

\* lines 226-229, and the loop's increment and test
G226 ==
    /\ tc.pc = "g226"
    /\ LET time_i == get_time_now(tc.m)
           pairs == Append(tc.pairs, Pair(tc.m, tc.time_0, time_i, tc.clocks_0, hw.now))
       IN  IF deviates(tc.time_0, time_i)
           THEN Step([tc EXCEPT !.pairs = pairs, !.pc = "done", !.result = "false"])
           ELSE IF tc.m + 1 < get_num_mboards
           THEN Step([tc EXCEPT !.pairs = pairs, !.m = tc.m + 1, !.pc = "g225"])
           ELSE Step([tc EXCEPT !.pairs = pairs, !.m = tc.m + 1, !.pc = "done", !.result = "true"])
    /\ UNCHANGED hw
    /\ UNCHANGED nonTimeVars

\* ---- the time part as a state machine ----
InitTime ==
    /\ MgrIdle
    /\ FacIdle
    /\ \E n \in 1..MaxBoards :
         \E skew \in [2..n -> Skews], wired \in SUBSET (1..n) :
            hw = [now   |-> [b \in 1..n |-> IF b = 1 THEN 0 ELSE skew[b]],
                  pps   |-> [b \in 1..n |-> 0],
                  armed |-> [b \in 1..n |-> <<>>],
                  wired |-> wired]
    /\ tc = NoCall

NextTime ==
    \/ \E time_spec \in TimeSpecs : StartSync(time_spec)
    \/ S192 \/ S193 \/ S195 \/ S196 \/ S186 \/ S207 \/ S211 \/ S212
    \/ StartQuery \/ G225 \/ G226
    \/ \E d \in WaitSteps \cup ReadSteps : Tick(d)
    \/ PpsEdge

SpecTime == InitTime /\ [][NextTime]_vars

\* The calling thread runs: the wait loop's steps and the steps after it are
\* taken while they are enabled, and the boards' clocks keep running.
SpecTimeFair ==
    /\ SpecTime
    /\ WF_vars(S192 \/ S193 \/ S195 \/ S196)
    /\ WF_vars(S186 \/ S207 \/ S211 \/ S212)
    /\ WF_vars(\E d \in WaitSteps : Tick(d))

\* -------------------------------------------------------------------------
\* Claims about time synchronisation (under SpecTime and SpecTimeFair)
\* -------------------------------------------------------------------------
InSync == tc.op = "set_time_unknown_pps"

InQuery == tc.op = "get_time_synchronized"

\* C6: the wait loop of set_time_unknown_pps goes round again only while
\* board 0's now, as read, is no more than 1.1 s past the baseline; once it
\* reads more, with the last-PPS value still at its baseline, the call ends
\* with the runtime_error, and then no board's time-at-next-PPS register has
\* been written.  The call gets past the loop only by reading a last-PPS
\* value that differs from the baseline.
C6_TimeoutWithoutPps ==
    InSync =>
        /\ tc.pc \in {"s195", "s196"} => tc.last_now - tc.time_start <= TimeoutTicks
        /\ tc.pc = "timeout" =>
              /\ tc.result = "runtime_error"
              /\ ~tc.pps_seen
              /\ tc.last_now - tc.time_start > TimeoutTicks
              /\ tc.arm_writes = <<>>
              /\ \A b \in Boards : hw.armed[b] = <<>>
        /\ tc.pc \in {"s186", "s207", "s211", "s212", "done"} => tc.pps_seen
        /\ tc.arm_writes # <<>> => tc.pps_seen

C6_Witness ==
    /\ InSync
    /\ tc.pc = "timeout"
    /\ get_time_last_pps(0) = tc.time_start_last_pps
    /\ get_time_now(0) - tc.time_start > TimeoutTicks
    /\ tc.arm_writes = <<>>
    /\ Len(hw.now) = 2

\* C7: in every execution of set_time_unknown_pps in which the boards'
\* clocks keep running, the wait loop is left: the call either reads a
\* changed last-PPS value or raises the timeout error.
C7_WaitLoopExits ==
    [](Waiting => <>(tc.pc = "timeout" \/ tc.pps_seen))

C7_Witness ==
    /\ InSync
    /\ tc.pc = "s186"
    /\ tc.pps_seen
    /\ tc.last_now - tc.time_start = TimeoutTicks

\* C8: get_time_synchronized returns true exactly when every board m >= 1
\* was read no earlier than board 0 and at most 10 ms ahead of it (a single
\* board, and identical readings, give true); it returns false at the first
\* board read behind board 0 or more than 10 ms ahead of it.
PairInBound(p) == p.time_0 <= p.time_i /\ p.time_i <= p.time_0 + ToleranceTicks

C8_SynchronizedBound ==
    (InQuery /\ tc.pc = "done") =>
        /\ tc.result \in {"true", "false"}
        /\ \A k \in 1..Len(tc.pairs) : tc.pairs[k].m = k
        /\ tc.result = "true" <=>
              /\ Len(tc.pairs) = get_num_mboards - 1
              /\ \A k \in 1..Len(tc.pairs) : PairInBound(tc.pairs[k])
        /\ tc.result = "false" =>
              /\ tc.pairs # <<>>
              /\ ~PairInBound(tc.pairs[Len(tc.pairs)])
              /\ \A k \in 1..(Len(tc.pairs) - 1) : PairInBound(tc.pairs[k])
        /\ (\A k \in 1..Len(tc.pairs) : tc.pairs[k].time_i = tc.pairs[k].time_0) =>
              tc.result = "true"

C8_Witness ==
    /\ InQuery
    /\ tc.pc = "done"
    /\ tc.result = "false"
    /\ Len(tc.pairs) = 2
    /\ tc.pairs[1].time_i - tc.pairs[1].time_0 = ToleranceTicks
    /\ tc.pairs[2].time_i - tc.pairs[2].time_0 = -1

\* =========================================================================
\* The facade part as a specification
\* =========================================================================
\* a device of 1..MaxFacBoards boards, each with the one-subdevice specification
\* on both sides and the same number of DSPs
InitFac ==
    /\ MgrIdle
    /\ TimeIdle
    /\ \E n \in 1..MaxFacBoards, d \in 1..MaxDsps :
          dev = [mboards  |-> [m \in 1..n |-> [rx_subdev_spec |-> <<"A:0">>,
                                                tx_subdev_spec |-> <<"A:0">>]],
                 num_dsps |-> d]
    /\ fc = NoFacCall

NextFac ==
    \/ \E mboard \in MboardArgs, bad \in BadSets : SetMasterClockRate(mboard, bad)
    \/ \E mboard \in MboardArgs, bad \in BadSets : SetTimeNow(mboard, bad)
    \/ \E mboard \in MboardArgs, bad \in BadSets : SetClockConfig(mboard, bad)
    \/ \E spec \in SubdevSpecs, mboard \in MboardArgs, bad \in BadSets :
          SetRxSubdevSpec(spec, mboard, bad)
    \/ \E spec \in SubdevSpecs, mboard \in MboardArgs, bad \in BadSets :
          SetTxSubdevSpec(spec, mboard, bad)
    \/ \E chan \in RxChanArgs, bad \in BadSets, deviation \in Deviations :
          SetRxRate(chan, bad, deviation)
    \/ \E chan \in TxChanArgs, bad \in BadSets, deviation \in Deviations :
          SetTxRate(chan, bad, deviation)
    \/ \E chan \in RxChanArgs, bad \in BadSets : IssueStreamCmd(chan, bad)
    \/ \E chan \in RxChanArgs, deviation \in Deviations : SetRxFreq(chan, deviation)
    \/ \E chan \in TxChanArgs, deviation \in Deviations : SetTxFreq(chan, deviation)
    \/ \E chan \in RxChanArgs : SetRxGain(chan)
    \/ \E chan \in TxChanArgs : SetTxGain(chan)
    \/ \E chan \in RxChanArgs : SetRxAntenna(chan)
    \/ \E chan \in TxChanArgs : SetTxAntenna(chan)
    \/ \E chan \in RxChanArgs : SetRxBandwidth(chan)
    \/ \E chan \in TxChanArgs : SetTxBandwidth(chan)
    \/ \E chan \in RxChanArgs : GetRxRate(chan)
    \/ \E chan \in TxChanArgs : GetTxRate(chan)
    \/ \E chan \in RxChanArgs : GetRxAntenna(chan)
    \/ \E chan \in TxChanArgs : GetTxAntenna(chan)
    \/ \E chan \in RxChanArgs \ {ALL_CHANS} : RxChanToMcp(chan)
    \/ \E chan \in TxChanArgs \ {ALL_CHANS} : TxChanToMcp(chan)
    \/ GetPpString
    \/ GetRxNumChannels
    \/ GetTxNumChannels
    \/ Return

SpecFacade == InitFac /\ [][NextFac]_vars

\* the boards of the pairs read so far that the bound finds deviating
RECURSIVE DeviatingBoards(_, _)
DeviatingBoards(pairs, k) ==
    IF k > Len(pairs) THEN <<>>
    ELSE (IF PairInBound(pairs[k]) THEN <<>> ELSE <<pairs[k].m>>) \o DeviatingBoards(pairs, k + 1)

\* what holds of a call once it has seen the PPS edge
AfterEdgeNoError ==
    (InSync /\ tc.pps_seen) =>
        /\ tc.pc \in {"s186", "s207", "s211", "s212", "done"}
        /\ tc.result \in {NoValue, "ok"}
        /\ tc.warnings = DeviatingBoards(tc.pairs, 1)
        /\ tc.pc = "done" =>
              /\ tc.result = "ok"
              /\ Len(tc.pairs) = get_num_mboards - 1
              /\ \A k \in 1..Len(tc.pairs) : tc.pairs[k].m = k

\* C15: once set_time_unknown_pps has seen the PPS edge it never raises an
\* error and runs to its normal end, whatever the boards' clocks read at
\* verification: each board m >= 1 read behind board 0 or more than 10 ms
\* ahead of it gives one warning naming m, a board within the bound none.
C15_VerificationNeverFails ==
    /\ []AfterEdgeNoError
    /\ (InSync /\ tc.pps_seen) ~> (InSync /\ tc.pc = "done" /\ tc.result = "ok")

C15_Witness ==
    /\ InSync
    /\ tc.pc = "done"
    /\ tc.result = "ok"
    /\ Len(tc.pairs) = 2
    /\ PairInBound(tc.pairs[1])
    /\ tc.pairs[2].time_i < tc.pairs[2].time_0
    /\ tc.warnings = <<2>>

\* the steps of a successful run on n boards, in order
ExpectedTrace(n) ==
    <<Ev("pps", 0)>>
    \o [k \in 1..n |-> Ev("arm", k - 1)]
    \o <<Ev("settle", 0)>>
    \o [k \in 1..(2 * (n - 1)) |-> Ev("read", IF k % 2 = 1 THEN 0 ELSE k \div 2)]

IsPrefix(a, b) == Len(a) <= Len(b) /\ \A k \in 1..Len(a) : a[k] = b[k]

\* C16: in set_time_unknown_pps the steps come in this order: the changed
\* last-PPS value is seen; then each board 0..n-1 gets one arm write with
\* the requested time, in ascending order; then the settle wait; then the
\* reads of the boards' now values.  A run that ends normally has made all
\* of them, and no arm write is made before the change is seen.
C16_SyncStepOrder ==
    InSync =>
        /\ IsPrefix(tc.trace, ExpectedTrace(get_num_mboards))
        /\ tc.arm_writes # <<>> => tc.pps_seen
        /\ Len(tc.arm_writes) <= get_num_mboards
        /\ \A k \in 1..Len(tc.arm_writes) :
              /\ tc.arm_writes[k] = [mboard |-> k - 1, time |-> tc.time_spec]
              /\ hw.armed[k] # <<>> => hw.armed[k] = <<tc.time_spec>>
        /\ (tc.pairs # <<>> \/ tc.pc = "s212") =>
              /\ Len(tc.arm_writes) = get_num_mboards
              /\ \E k \in 1..Len(tc.trace) : tc.trace[k].ev = "settle"
        /\ (tc.pc = "done" /\ tc.result = "ok") => tc.trace = ExpectedTrace(get_num_mboards)

C16_Witness ==
    /\ InSync
    /\ tc.pc = "done"
    /\ tc.result = "ok"
    /\ get_num_mboards = 3
    /\ Len(tc.arm_writes) = 3
    /\ Len(tc.trace) = 9
    /\ tc.time_spec = 7

\* -------------------------------------------------------------------------
\* Claims about the facade and the channel resolver (under SpecFacade)
\* -------------------------------------------------------------------------
Dirs == {RX_DIR, TX_DIR}

\* the per-board channel counts of a direction, board 0 first
Counts(dir) ==
    [b \in 1..Len(dev.mboards) |->
        IF dir = RX_DIR THEN Len(dev.mboards[b].rx_subdev_spec)
                        ELSE Len(dev.mboards[b].tx_subdev_spec)]

\* the channel count of boards 0 .. k-1
RECURSIVE SumTo(_, _)
SumTo(counts, k) == IF k = 0 THEN 0 ELSE SumTo(counts, k - 1) + counts[k]

Total(dir) == SumTo(Counts(dir), Len(dev.mboards))

\* (m, i) is what the flat index c stands for
Resolves(dir, c, mcp) ==
    LET counts == Counts(dir)
    IN  /\ mcp.mboard \in 0..(Len(counts) - 1)
        /\ SumTo(counts, mcp.mboard + 1) > c
        /\ \A k \in 0..(mcp.mboard - 1) : SumTo(counts, k + 1) <= c
        /\ mcp.chan = c - SumTo(counts, mcp.mboard)
        /\ mcp.chan >= 0
        /\ mcp.chan < counts[mcp.mboard + 1]

\* C1: for every list of per-board channel counts, boards without channels
\* included, and every flat index c below the total, rx_chan_to_mcp and
\* tx_chan_to_mcp give (m, i) with m the smallest board whose cumulative
\* count exceeds c and i = c minus the count of the boards before m, so
\* i < count(m); distinct flat indices give distinct pairs.
C1_ResolverCorrect ==
    /\ \A dir \in Dirs : \A c \in 0..(Total(dir) - 1) :
          Resolves(dir, c, xx_chan_to_mcp(dev, dir, c))
    /\ \A dir \in Dirs : \A c1, c2 \in 0..(Total(dir) - 1) :
          c1 # c2 => xx_chan_to_mcp(dev, dir, c1) # xx_chan_to_mcp(dev, dir, c2)
    /\ (fc.op = "rx_chan_to_mcp" /\ fc.index < Total(RX_DIR)) =>
          Resolves(RX_DIR, fc.index, fc.mcp)
    /\ (fc.op = "tx_chan_to_mcp" /\ fc.index < Total(TX_DIR)) =>
          Resolves(TX_DIR, fc.index, fc.mcp)

C1_Witness ==
    /\ fc.op = "rx_chan_to_mcp"
    /\ Counts(RX_DIR) = <<0, 2>>
    /\ fc.index = 1
    /\ fc.mcp = [mboard |-> 1, chan |-> 1]

\* ---- what a call was asked to do, read off the last call ----
MboardFanOutOps ==
    {"set_master_clock_rate", "set_time_now", "set_clock_config",
     "set_rx_subdev_spec", "set_tx_subdev_spec"}

ChanFanOutOps == {"set_rx_rate", "set_tx_rate", "issue_stream_cmd"}

PerChanOps ==
    {"set_rx_freq", "set_rx_gain", "set_rx_antenna", "set_rx_bandwidth",
     "set_tx_freq", "set_tx_gain", "set_tx_antenna", "set_tx_bandwidth"}

DirOf(op) ==
    IF op \in {"set_tx_rate", "set_tx_freq", "set_tx_gain", "set_tx_antenna", "set_tx_bandwidth",
                "get_tx_rate", "get_tx_antenna", "tx_chan_to_mcp"}
    THEN TX_DIR ELSE RX_DIR

UsesDsp(op) == op \in ChanFanOutOps \cup {"set_rx_freq", "set_tx_freq"}

\* the number of boards or channels the call ranges over
CountOf(op) == IF op \in MboardFanOutOps THEN Len(dev.mboards) ELSE Total(DirOf(op))

\* the operation on index k (below the count) fails
FailsAt(op, k) ==
    IF op \in MboardFanOutOps
    THEN k \in fc.bad
    ELSE LET mcp == xx_chan_to_mcp(dev, DirOf(op), k)
         IN  mcp.mboard \in fc.bad \/ (UsesDsp(op) /\ mcp.chan >= dev.num_dsps)

\* the first index that fails, the count if none does
StopOf(op) ==
    LET failing == {k \in 0..(CountOf(op) - 1) : FailsAt(op, k)}
    IN  IF failing = {} THEN CountOf(op)
        ELSE CHOOSE k \in failing : \A j \in failing : k <= j

\* the write w went to index k
WriteAt(op, w, k) ==
    IF op \in MboardFanOutOps
    THEN w.mboard = k
    ELSE LET mcp == xx_chan_to_mcp(dev, DirOf(op), k)
         IN  w.mboard = mcp.mboard /\ w.unit[3] = mcp.chan

UpTo(n) == [k \in 1..n |-> k - 1]

AppliedToAll(op) ==
    /\ fc.error = NoValue
    /\ fc.calls = UpTo(CountOf(op))
    /\ \A k \in 0..(CountOf(op) - 1) : \E j \in 1..Len(fc.writes) : WriteAt(op, fc.writes[j], k)

\* C9 as stated: every setter taking a board or channel index, the
\* frequency, gain, antenna and bandwidth setters included, given the
\* sentinel applies the value to every board or channel 0..count-1.
C9_EverySetterAcceptsSentinel ==
    (/\ fc.op \in MboardFanOutOps \cup ChanFanOutOps \cup PerChanOps
     /\ fc.index = ALL_CHANS
     /\ StopOf(fc.op) = CountOf(fc.op)) => AppliedToAll(fc.op)

\* C9: set_master_clock_rate, set_time_now, set_clock_config and
\* set_rx/tx_subdev_spec given the all-boards sentinel, and set_rx/tx_rate
\* and issue_stream_cmd given the all-channels sentinel, apply the value to
\* every board or channel 0..count-1.  The frequency, gain, antenna and
\* bandwidth setters take a channel index only: given the sentinel value
\* they fail with an out-of-range error and write nothing.
C9_SentinelOnlyInFanOutSetters ==
    /\ (/\ fc.op \in MboardFanOutOps \cup ChanFanOutOps
        /\ fc.index = ALL_CHANS
        /\ StopOf(fc.op) = CountOf(fc.op)) => AppliedToAll(fc.op)
    /\ (fc.op \in PerChanOps /\ fc.index = ALL_CHANS) =>
          /\ fc.error = "out_of_range"
          /\ fc.writes = <<>>
          /\ fc.calls = <<ALL_CHANS>>

C9_Witness ==
    /\ fc.op = "set_rx_antenna"
    /\ fc.index = ALL_CHANS
    /\ fc.error = "out_of_range"
    /\ fc.writes = <<>>
    /\ Total(RX_DIR) >= 2

\* C10: a sentinel fan-out enters the single-index operation with 0, 1, ...
\* in ascending order; when the operation on index k fails the error is the
\* call's outcome, indices 0..k-1 have been written in that order and no
\* index above k is entered; when none fails all of 0..count-1 are written.
C10_FanOutAscendingAbortsAtFirstFailure ==
    (fc.op \in MboardFanOutOps \cup ChanFanOutOps /\ fc.index = ALL_MBOARDS) =>
        LET count == CountOf(fc.op)
            stop  == StopOf(fc.op)
        IN  /\ fc.calls = UpTo(IF stop < count THEN stop + 1 ELSE count)
            /\ Len(fc.writes) = stop
            /\ \A k \in 1..stop : WriteAt(fc.op, fc.writes[k], k - 1)
            /\ (fc.error # NoValue) <=> (stop < count)

C10_Witness ==
    /\ fc.op = "set_rx_rate"
    /\ fc.index = ALL_CHANS
    /\ Total(RX_DIR) = 4
    /\ fc.calls = <<0, 1>>
    /\ Len(fc.writes) = 1
    /\ fc.error = "out_of_range"

\* C11 as stated: when a sentinel call aborts with an error, the call has
\* written no property and the device is as it was before the call.
C11_NoPartialApplication ==
    (/\ fc.op \in MboardFanOutOps \cup ChanFanOutOps
     /\ fc.index = ALL_MBOARDS
     /\ fc.error # NoValue) =>
        /\ fc.writes = <<>>
        /\ dev = fc.before

SpecOf(board, op) ==
    IF op = "set_rx_subdev_spec" THEN board.rx_subdev_spec ELSE board.tx_subdev_spec

\* C11: when a sentinel call aborts with an error at index k, the writes to
\* the indices 0..k-1 have been made and stay: nothing is undone.  For the
\* subdevice specification setters boards 0..k-1 hold the new specification
\* and boards k.. hold what they held before the call.
C11_PartialApplicationStays ==
    (/\ fc.op \in MboardFanOutOps \cup ChanFanOutOps
     /\ fc.index = ALL_MBOARDS
     /\ fc.error # NoValue) =>
        LET k == StopOf(fc.op)
        IN  /\ k < CountOf(fc.op)
            /\ Len(fc.writes) = k
            /\ \A j \in 1..k : WriteAt(fc.op, fc.writes[j], j - 1)
            /\ Len(dev.mboards) = Len(fc.before.mboards)
            /\ dev.num_dsps = fc.before.num_dsps
            /\ fc.op \in {"set_rx_subdev_spec", "set_tx_subdev_spec"} =>
                  /\ \A j \in 1..k : SpecOf(dev.mboards[j], fc.op) = fc.writes[j].val
                  /\ \A j \in (k + 1)..Len(dev.mboards) : dev.mboards[j] = fc.before.mboards[j]
            /\ fc.op \notin {"set_rx_subdev_spec", "set_tx_subdev_spec"} => dev = fc.before

C11_Witness ==
    /\ fc.op = "set_rx_subdev_spec"
    /\ fc.index = ALL_MBOARDS
    /\ fc.error # NoValue
    /\ Len(fc.writes) = 1
    /\ dev.mboards[1].rx_subdev_spec # fc.before.mboards[1].rx_subdev_spec
    /\ dev.mboards[2] = fc.before.mboards[2]

ChanGetOps == {"get_rx_rate", "get_tx_rate", "get_rx_antenna", "get_tx_antenna"}

\* C12: a flat channel index at or above the total channel count, the
\* all-channels value given to an accessor without a fan-out included, is
\* resolved to no existing board: the resolver ends one past the last board,
\* and every channel accessor given the index fails with an out-of-range
\* error, writes no property and leaves the device as it was.
C12_IndexPastTotalFails ==
    /\ \A dir \in Dirs : \A c \in {Total(dir), Total(dir) + 1, ALL_CHANS} :
          xx_chan_to_mcp(dev, dir, c) = [mboard |-> Len(dev.mboards), chan |-> c - Total(dir)]
    /\ (/\ fc.op \in {"rx_chan_to_mcp", "tx_chan_to_mcp"}
        /\ fc.index >= Total(DirOf(fc.op))) => fc.mcp.mboard = Len(dev.mboards)
    /\ (/\ fc.op \in ChanFanOutOps \cup PerChanOps \cup ChanGetOps
        /\ fc.index >= Total(DirOf(fc.op))
        /\ ~(fc.op \in ChanFanOutOps /\ fc.index = ALL_CHANS)) =>
            /\ fc.error = "out_of_range"
            /\ fc.writes = <<>>
            /\ dev = fc.before

C12_Witness ==
    /\ fc.op = "set_tx_gain"
    /\ Total(TX_DIR) = 3
    /\ fc.index = 3
    /\ fc.error = "out_of_range"
    /\ fc.writes = <<>>

\* C14: set_rx_rate / set_tx_rate on one channel that exists writes the
\* requested rate to that channel's DSP, and gives exactly one warning,
\* naming RX or TX, if and only if the rate read back differs from the one
\* requested by more than 1.0 (10 tenths) either way; the call ends without
\* error with or without the warning.
C14_RateWarningBeyondTolerance ==
    (/\ fc.op \in {"set_rx_rate", "set_tx_rate"}
     /\ fc.index < Total(DirOf(fc.op))
     /\ ~FailsAt(fc.op, fc.index)) =>
        LET mcp == xx_chan_to_mcp(dev, DirOf(fc.op), fc.index)
            far == fc.deviation > 10 \/ fc.deviation < -10
        IN  /\ fc.error = NoValue
            /\ Len(fc.writes) = 1
            /\ fc.writes[1].prop = "DSP_PROP_HOST_RATE"
            /\ fc.writes[1].val = TargetRate
            /\ fc.writes[1].mboard = mcp.mboard
            /\ fc.writes[1].unit[3] = mcp.chan
            /\ Len(fc.warnings) = (IF far THEN 1 ELSE 0)
            /\ far => /\ fc.warnings[1][1] = (IF fc.op = "set_rx_rate" THEN "RX" ELSE "TX")
                      /\ fc.warnings[1][3] = TargetRate
                      /\ fc.warnings[1][4] = TargetRate + fc.deviation

C14_Witness ==
    /\ fc.op = "set_tx_rate"
    /\ fc.index = 1
    /\ fc.deviation = 15
    /\ fc.error = NoValue
    /\ Len(fc.warnings) = 1
    /\ fc.warnings[1][1] = "TX"

\* =========================================================================
\* The manager part as a specification
\* =========================================================================
InitMgr == MgrIdle /\ TimeIdle /\ FacIdle

NextMgr ==
    \/ \E id \in DboardIds, c \in Ctors, names \in NameLists : RegisterSubdevs(id, c, names)
    \/ \E rx \in DboardIds, tx \in DboardIds : Construct(rx, tx)
    \/ \E dir \in {RX_TYPE, TX_TYPE}, name \in SubdevNames : ProxySet(dir, name)
    \/ \E dir \in {RX_TYPE, TX_TYPE}, name \in SubdevNames : GetSubdev(dir, name)

SpecMgr == InitMgr /\ [][NextMgr]_vars


\* -------------------------------------------------------------------------
\* Claims about the registry and the manager (under SpecMgr)
\* -------------------------------------------------------------------------
\* The constructor an identity code resolves to in the current registry.
CtorOf(id) == dict_get(id_to_ctor_map, id)

\* The value a get through the proxy filed under name in dir's map returns.
GetThrough(dir, name) == proxy_get(mgr.heap, dict_get(DboardsOf(mgr, dir), name))

\* The reading of a "%04x" rendering
hex_value(d) == (CHOOSE i \in 1..16 : HexDigits[i] = d) - 1

RECURSIVE parse_hex(_)
parse_hex(s) == IF s = <<>> THEN 0
                ELSE 16 * parse_hex(SubSeq(s, 1, Len(s) - 1)) + hex_value(s[Len(s)])

\* C2: a manager built with equal RX and TX identity codes has, for every
\* name of that code's current subdevice-name list, an RX-tagged and a
\* TX-tagged proxy that wrap the same driver instance, and the value set
\* through either proxy is the value a get through the other returns.
C2_XcvrProxiesShareInstance ==
    (mgr.state = "ok" /\ mgr.rx_id = mgr.tx_id) =>
        /\ \A name \in Range(dict_get(ctor_to_names_map, CtorOf(mgr.rx_id))) :
              /\ dict_has_key(mgr._rx_dboards, name)
              /\ dict_has_key(mgr._tx_dboards, name)
              /\ dict_get(mgr._rx_dboards, name).type = RX_TYPE
              /\ dict_get(mgr._tx_dboards, name).type = TX_TYPE
              /\ dict_get(mgr._rx_dboards, name).subdev = dict_get(mgr._tx_dboards, name).subdev
        /\ last_set.dir # NoValue =>
              /\ last_set.other_has
              /\ GetThrough(OtherDir(last_set.dir), last_set.name) = last_set.val
              /\ GetThrough(last_set.dir, last_set.name) = last_set.val

C2_Witness ==
    /\ mgr.state = "ok"
    /\ mgr.rx_id = mgr.tx_id
    /\ last_set.dir = TX_TYPE
    /\ last_set.other_before # last_set.val
    /\ GetThrough(RX_TYPE, last_set.name) = last_set.val

\* C3 as stated: with different RX and TX identity codes, whatever their
\* constructors, a value set through one proxy is not visible through the
\* other direction's proxy of the same name.
C3_DifferentCodesIndependent ==
    (mgr.state = "ok" /\ mgr.rx_id # mgr.tx_id /\ last_set.dir # NoValue /\ last_set.other_has) =>
        /\ GetThrough(OtherDir(last_set.dir), last_set.name) = last_set.other_before
        /\ GetThrough(OtherDir(last_set.dir), last_set.name) # last_set.val

\* C3 as amended: the manager branches on the constructors the two codes
\* resolve to.  When they differ, no driver instance is wrapped by both an RX
\* and a TX proxy and a set through one direction leaves the other
\* direction's value for that name as it was; when two codes resolve to the
\* same constructor, the set is visible through the other direction.
C3_DifferentCtorsIndependent ==
    (mgr.state = "ok" /\ mgr.rx_id # mgr.tx_id) =>
        IF CtorOf(mgr.rx_id) # CtorOf(mgr.tx_id)
        THEN /\ \A i \in 1..Len(mgr._rx_dboards), j \in 1..Len(mgr._tx_dboards) :
                    mgr._rx_dboards[i].val.subdev # mgr._tx_dboards[j].val.subdev
             /\ (last_set.dir # NoValue /\ last_set.other_has) =>
                  /\ GetThrough(OtherDir(last_set.dir), last_set.name) = last_set.other_before
                  /\ GetThrough(OtherDir(last_set.dir), last_set.name) # last_set.val
        ELSE (last_set.dir # NoValue) =>
                  /\ last_set.other_has
                  /\ GetThrough(OtherDir(last_set.dir), last_set.name) = last_set.val

C3_Witness ==
    /\ mgr.state = "ok"
    /\ mgr.rx_id # mgr.tx_id
    /\ CtorOf(mgr.rx_id) # CtorOf(mgr.tx_id)
    /\ last_set.dir = RX_TYPE
    /\ last_set.other_has
    /\ GetThrough(RX_TYPE, last_set.name) = last_set.val
    /\ GetThrough(TX_TYPE, last_set.name) # last_set.val

\* C4: after any sequence of register_subdevs calls, every code that was
\* registered resolves to the constructor of its most recent registration,
\* and id_to_ctor_map holds exactly one entry for it.
C4_LastWriteWins ==
    \A id \in DboardIds :
        reg_hist.last[id] # NoValue =>
            /\ get_dboard_ctor(id_to_ctor_map, id, "rx").ok
            /\ get_dboard_ctor(id_to_ctor_map, id, "rx").ctor = reg_hist.last[id]
            /\ Cardinality({i \in 1..Len(id_to_ctor_map) : id_to_ctor_map[i].key = id}) = 1

C4_Witness ==
    /\ reg_hist.n_ext >= 1
    /\ reg_hist.last[ID_BASIC_TX] = basic_rx_make
    /\ CtorOf(ID_BASIC_TX) = basic_rx_make
    /\ Len(id_to_ctor_map) = 3

\* C5: resolving a code that was never registered fails with the
\* runtime_error whose message renders exactly that code, and a manager
\* constructed with such a code as RX or TX identity fails with that error
\* (the RX code's when both are unknown).
C5_UnknownCodeFails ==
    /\ \A id \in DboardIds :
          reg_hist.last[id] = NoValue =>
              LET r == get_dboard_ctor(id_to_ctor_map, id, "tx") IN
              /\ ~r.ok
              /\ SubSeq(r.what, 1, 4) = <<"Unknown", "tx", "dboard id:", "0x">>
              /\ parse_hex(SubSeq(r.what, 5, Len(r.what))) = id
    /\ mgr.state # "none" =>
          IF mgr.rx_id \notin mgr.known_at
          THEN /\ mgr.state = "failed"
               /\ mgr.what[2] = "rx"
               /\ parse_hex(SubSeq(mgr.what, 5, Len(mgr.what))) = mgr.rx_id
          ELSE IF mgr.tx_id \notin mgr.known_at
          THEN /\ mgr.state = "failed"
               /\ mgr.what[2] = "tx"
               /\ parse_hex(SubSeq(mgr.what, 5, Len(mgr.what))) = mgr.tx_id
          ELSE mgr.state = "ok"

C5_Witness ==
    /\ mgr.state = "failed"
    /\ mgr.rx_id \in mgr.known_at
    /\ mgr.tx_id = 36
    /\ mgr.what = <<"Unknown", "tx", "dboard id:", "0x", "0", "0", "2", "4">>
    /\ mgr.heap = <<>>


\* C13: get_rx_subdev / get_tx_subdev with a name not filed in the map of
\* its side fails with an invalid-argument error whose message ends in
\* exactly that name, and leaves both maps as they were; with a filed name
\* it gives the link to the proxy filed under that name, maps unchanged.
C13_UnknownSubdevNameFails ==
    last_get.dir # NoValue =>
        LET before == IF last_get.dir = RX_TYPE THEN last_get.rx_before ELSE last_get.tx_before
            filed == \E i \in 1..Len(before) : before[i].key = last_get.name
        IN  /\ mgr._rx_dboards = last_get.rx_before
            /\ mgr._tx_dboards = last_get.tx_before
            /\ filed =>
                  /\ last_get.ok
                  /\ last_get.error = NoValue
                  /\ \E i \in 1..Len(before) :
                        before[i].key = last_get.name /\ last_get.link = <<before[i].val>>
                  /\ last_get.link[1].type = last_get.dir
            /\ ~filed =>
                  /\ ~last_get.ok
                  /\ last_get.error = "invalid_argument"
                  /\ last_get.link = <<>>
                  /\ last_get.what[Len(last_get.what)] = last_get.name
                  /\ last_get.what[2] = (IF last_get.dir = RX_TYPE THEN "rx" ELSE "tx")

C13_Witness ==
    /\ last_get.dir = TX_TYPE
    /\ last_get.name = "a"
    /\ last_get.error = "invalid_argument"
    /\ last_get.tx_before # <<>>
    /\ \E i \in 1..Len(last_get.rx_before) : last_get.rx_before[i].key = "a"

\* the six gpio calls of the initialisation, by operation and bank, in order
GpioOrder ==
    << <<"set_gpio_ddr", GPIO_RX_BANK>>, <<"set_gpio_ddr", GPIO_TX_BANK>>,
       <<"write_gpio", GPIO_RX_BANK>>, <<"write_gpio", GPIO_TX_BANK>>,
       <<"set_atr_reg", GPIO_RX_BANK>>, <<"set_atr_reg", GPIO_TX_BANK>> >>

\* C17: a manager that is constructed has made exactly six gpio calls, the
\* direction registers of the RX then the TX bank, the output values of RX
\* then TX, the auto-switching registers of RX then TX, and every driver
\* constructor call comes after all six, on the transceiver path and on
\* the separate path alike.
C17_GpioBeforeDrivers ==
    mgr.state = "ok" =>
        /\ Len(mgr.events) >= 6
        /\ \A k \in 1..6 :
              /\ mgr.events[k].op = GpioOrder[k][1]
              /\ mgr.events[k].bank = GpioOrder[k][2]
        /\ \A k \in 7..Len(mgr.events) : mgr.events[k].op = "ctor"
        /\ Len(mgr.events) = 6 + Len(mgr.heap)

C17_Witness ==
    /\ mgr.state = "ok"
    /\ mgr.known_at = DboardIds
    /\ mgr.rx_id = ID_BASIC_RX
    /\ mgr.tx_id = ID_BASIC_TX
    /\ Len(mgr.events) > 7
    /\ mgr.events[7].op = "ctor"

\* bit i of a 16-bit register value
Bit(x, i) == (x \div (2 ^ i)) % 2

\* the gpio call of the initialisation with this operation on this bank
GpioCall(op, bank) ==
    mgr.events[CHOOSE k \in 1..6 : mgr.events[k].op = op /\ mgr.events[k].bank = bank]

\* every line of both banks is written, with the given level, by the calls op
AllLinesWritten(op, level) ==
    \A bank \in {GPIO_RX_BANK, GPIO_TX_BANK} : \A i \in 0..15 :
        /\ Bit(GpioCall(op, bank).mask, i) = 1
        /\ Bit(GpioCall(op, bank).value, i) = level

AtrAllZero ==
    \A bank \in {GPIO_RX_BANK, GPIO_TX_BANK} :
        /\ GpioCall("set_atr_reg", bank).tx = 0
        /\ GpioCall("set_atr_reg", bank).rx = 0
        /\ GpioCall("set_atr_reg", bank).mask = 0

\* C18 as stated: with a direction bit of 1 meaning input, all 16 lines of
\* both banks are made inputs (their direction bits are written 1), both
\* output-value registers are zero and the auto-switching fields are zero.
C18_DirectionBitsOne ==
    mgr.state = "ok" =>
        /\ AllLinesWritten("set_gpio_ddr", 1)
        /\ AllLinesWritten("write_gpio", 0)
        /\ AtrAllZero

\* C18: the initialisation writes 0 to all 16 direction bits of both banks
\* (a direction bit of 0 is what the code calls an input), 0 to all 16
\* output-value bits of both banks, and 0 to the three fields of both
\* auto-switching registers.
C18_DirectionBitsZero ==
    mgr.state = "ok" =>
        /\ AllLinesWritten("set_gpio_ddr", 0)
        /\ AllLinesWritten("write_gpio", 0)
        /\ AtrAllZero

C18_Witness ==
    /\ mgr.state = "ok"
    /\ GpioCall("set_gpio_ddr", GPIO_TX_BANK).value = 0
    /\ GpioCall("set_gpio_ddr", GPIO_TX_BANK).mask = 65535
    /\ GpioCall("set_atr_reg", GPIO_RX_BANK).mask = 0
    /\ mgr.heap # <<>>

\* C19: when the RX or the TX code has no registry entry at construction,
\* the constructor fails having made no gpio call, constructed no driver
\* and filed no proxy; the RX code is looked up first, so with both codes
\* unknown the error is the one for the RX code.
C19_FailsBeforeAnyEffect ==
    /\ (mgr.state # "none" /\ (mgr.rx_id \notin mgr.known_at \/ mgr.tx_id \notin mgr.known_at)) =>
          /\ mgr.state = "failed"
          /\ mgr.events = <<>>
          /\ mgr.heap = <<>>
          /\ mgr._rx_dboards = <<>>
          /\ mgr._tx_dboards = <<>>
    /\ (mgr.state # "none" /\ mgr.rx_id \notin mgr.known_at /\ mgr.tx_id \notin mgr.known_at) =>
          mgr.what = <<"Unknown", "rx", "dboard id:", "0x">> \o format_04x(mgr.rx_id)
    /\ mgr.state = "failed" => (mgr.rx_id \notin mgr.known_at \/ mgr.tx_id \notin mgr.known_at)

C19_Witness ==
    /\ mgr.state = "failed"
    /\ mgr.rx_id \notin mgr.known_at
    /\ mgr.tx_id \notin mgr.known_at
    /\ mgr.what[2] = "rx"
    /\ mgr.events = <<>>
    /\ called

\* C20: the built-in entries are seeded exactly once, by the first call that
\* reaches the registry (a registration or a construction) and before any
\* client registration is stored; no later call seeds again, so the
\* constructor a client last registered for a code, built-in codes included,
\* is the one the code resolves to.
C20_SeedThenOverride ==
    /\ reg_hist.n_seed = (IF called THEN 1 ELSE 0)
    /\ (reg_hist.n_ext > 0 \/ mgr # NoManager) => called
    /\ called =>
          /\ reg_hist.seed_first
          /\ \A id \in {ID_NONE, ID_BASIC_TX, ID_BASIC_RX} :
                dict_has_key(id_to_ctor_map, id)
    /\ \A id \in DboardIds :
          reg_hist.ext[id] # NoValue =>
              /\ dict_has_key(id_to_ctor_map, id)
              /\ dict_get(id_to_ctor_map, id) = reg_hist.ext[id]
    /\ \A id \in {ID_NONE, ID_BASIC_RX} :
          (called /\ reg_hist.ext[id] = NoValue) =>
              dict_get(id_to_ctor_map, id) = basic_rx_make

\* a client replaced the constructor of the built-in code ID_BASIC_RX, and a
\* manager constructed afterwards resolved the code to the client's constructor
C20_Witness ==
    /\ reg_hist.ext[ID_BASIC_RX] = "ext::make"
    /\ mgr.state = "ok"
    /\ mgr.rx_id = ID_BASIC_RX
    /\ \E k \in 1..Len(mgr.events) :
          mgr.events[k].op = "ctor" /\ mgr.events[k].ctor = "ext::make"

\* ---- C21
\* the constructor calls a manager made for one constructor and one name
CtorCalls(ctor, name) ==
    {k \in 1..Len(mgr.events) :
        /\ mgr.events[k].op = "ctor"
        /\ mgr.events[k].ctor = ctor
        /\ mgr.events[k].name = name}

AllCtorCalls == {k \in 1..Len(mgr.events) : mgr.events[k].op = "ctor"}

KeySet(d) == Range(dict_get_keys(d))

\* C21: a manager built for one shared constructor calls it exactly once per
\* subdevice name and files the one instance under the name in both maps;
\* built for two constructors, it calls the RX one once per RX name and the TX
\* one once per TX name and files each instance in its own map only.
C21_OncePerName ==
    mgr.state = "ok" =>
        LET rx_ctor == CtorOf(mgr.rx_id)
            tx_ctor == CtorOf(mgr.tx_id)
            rx_names == Range(dict_get(ctor_to_names_map, rx_ctor))
            tx_names == Range(dict_get(ctor_to_names_map, tx_ctor))
        IN  IF rx_ctor = tx_ctor
            THEN /\ \A name \in rx_names : Cardinality(CtorCalls(rx_ctor, name)) = 1
                 /\ Cardinality(AllCtorCalls) = Cardinality(rx_names)
                 /\ KeySet(mgr._rx_dboards) = rx_names
                 /\ KeySet(mgr._tx_dboards) = rx_names
                 /\ \A name \in rx_names :
                       dict_get(mgr._rx_dboards, name).subdev
                           = dict_get(mgr._tx_dboards, name).subdev
            ELSE /\ \A name \in rx_names : Cardinality(CtorCalls(rx_ctor, name)) = 1
                 /\ \A name \in tx_names : Cardinality(CtorCalls(tx_ctor, name)) = 1
                 /\ Cardinality(AllCtorCalls)
                       = Cardinality(rx_names) + Cardinality(tx_names)
                 /\ KeySet(mgr._rx_dboards) = rx_names
                 /\ KeySet(mgr._tx_dboards) = tx_names
                 /\ \A i \in 1..Len(mgr._rx_dboards), j \in 1..Len(mgr._tx_dboards) :
                       mgr._rx_dboards[i].val.subdev # mgr._tx_dboards[j].val.subdev

\* a name list that holds a name twice: the shared constructor was called
\* twice for the name, and one entry is filed under it
C21_Witness ==
    /\ mgr.state = "ok"
    /\ CtorOf(mgr.rx_id) = CtorOf(mgr.tx_id)
    /\ \E name \in SubdevNames :
          /\ Cardinality(CtorCalls(CtorOf(mgr.rx_id), name)) = 2
          /\ Cardinality({i \in 1..Len(mgr._rx_dboards) : mgr._rx_dboards[i].key = name}) = 1
          /\ dict_get(mgr._rx_dboards, name).subdev = Len(mgr.heap)

NoDuplicates(names) == Cardinality(Range(names)) = Len(names)

\* C21, what the constructor does: one constructor call per entry of the name
\* list, duplicates included, and the instance filed under a name is the one
\* made last for it; so the counts of C21_OncePerName hold whenever the lists
\* hold no name twice.
C21_OncePerListEntry ==
    mgr.state = "ok" =>
        LET rx_ctor == CtorOf(mgr.rx_id)
            tx_ctor == CtorOf(mgr.tx_id)
            rx_list == dict_get(ctor_to_names_map, rx_ctor)
            tx_list == dict_get(ctor_to_names_map, tx_ctor)
        IN  /\ Cardinality(AllCtorCalls)
                  = (IF rx_ctor = tx_ctor THEN Len(rx_list) ELSE Len(rx_list) + Len(tx_list))
            /\ Len(mgr.heap) = Cardinality(AllCtorCalls)
            /\ KeySet(mgr._rx_dboards) = Range(rx_list)
            /\ KeySet(mgr._tx_dboards) = Range(tx_list)
            /\ \A i \in 1..Len(mgr._rx_dboards) :
                  LET inst == mgr._rx_dboards[i].val.subdev IN
                  /\ mgr.heap[inst].name = mgr._rx_dboards[i].key
                  /\ mgr.heap[inst].ctor = rx_ctor
            /\ (NoDuplicates(rx_list) /\ NoDuplicates(tx_list)) => C21_OncePerName

\* ---- C22
\* C22: whatever set_rx_subdev_spec / set_tx_subdev_spec calls came before,
\* a call with a channel index below the total reaches the board and the
\* channel that the index stands for under the specifications the boards
\* hold when the call is made, and get_rx_num_channels / get_tx_num_channels
\* return the sum of the sizes of those specifications.
C22_ResolvedAgainstLiveSpecs ==
    /\ fc.op = "get_rx_num_channels" => (dev = fc.before /\ fc.count = Total(RX_DIR))
    /\ fc.op = "get_tx_num_channels" => (dev = fc.before /\ fc.count = Total(TX_DIR))
    /\ (/\ fc.op \in PerChanOps \cup ChanGetOps \cup ChanFanOutOps
        /\ fc.index < Total(DirOf(fc.op))) =>
            /\ dev = fc.before
            /\ \A j \in 1..Len(fc.writes) :
                  Resolves(DirOf(fc.op), fc.index,
                           [mboard |-> fc.writes[j].mboard, chan |-> fc.writes[j].unit[3]])
            /\ (fc.bad = {} /\ ~UsesDsp(fc.op) /\ fc.op \notin ChanGetOps) =>
                  (fc.error = NoValue /\ fc.writes # <<>>)
            /\ ~UsesDsp(fc.op) /\ fc.op # "get_rx_rate" /\ fc.op # "get_tx_rate" =>
                  fc.error # "out_of_range"
    /\ (/\ fc.op \in {"rx_chan_to_mcp", "tx_chan_to_mcp"}
        /\ fc.index < Total(DirOf(fc.op))) =>
            fc.mcp.chan < Counts(DirOf(fc.op))[fc.mcp.mboard + 1]
                /\ SumTo(Counts(DirOf(fc.op)), fc.mcp.mboard) + fc.mcp.chan = fc.index

\* the device was made with one RX channel per board; after board 0 was
\* given two, flat index 1 reached board 0, channel 1, not board 1
C22_Witness ==
    /\ Counts(RX_DIR) = <<2, 1>>
    /\ fc.op = "set_rx_antenna"
    /\ fc.index = 1
    /\ fc.error = NoValue
    /\ fc.writes[1].mboard = 0
    /\ fc.writes[1].unit[3] = 1

\* ---- C23
\* every instance filed in the map d was made by ctor
BuiltBy(d, ctor) == \A i \in 1..Len(d) : mgr.heap[d[i].val.subdev].ctor = ctor

\* C23: with the built-in entries only, a manager given the 'none' code as TX
\* code has its TX side built by basic_tx::make with the one name "", and
\* given it as RX code has its RX side built by basic_rx::make with the one
\* name "ab".
C23_NoneDefaults ==
    (mgr.state = "ok" /\ reg_hist.n_ext = 0) =>
        /\ mgr.tx_id = ID_NONE =>
              /\ dict_get_keys(mgr._tx_dboards) = <<"">>
              /\ BuiltBy(mgr._tx_dboards, basic_tx_make)
        /\ mgr.rx_id = ID_NONE =>
              /\ dict_get_keys(mgr._rx_dboards) = <<"ab">>
              /\ BuiltBy(mgr._rx_dboards, basic_rx_make)

\* C23, what the seeding leaves: the second entry for the 'none' code (line
\* 46) replaces the first (line 45), and the names filed for basic_rx::make at
\* line 46 are replaced at line 48; so the 'none' code is built by
\* basic_rx::make with the names "a", "b", "ab" on either side.
C23_NoneIsBasicRx ==
    /\ (called /\ reg_hist.n_ext = 0) =>
          /\ CtorOf(ID_NONE) = basic_rx_make
          /\ dict_get(ctor_to_names_map, basic_rx_make) = <<"a", "b", "ab">>
          /\ dict_get(ctor_to_names_map, basic_tx_make) = <<"">>
    /\ (mgr.state = "ok" /\ reg_hist.n_ext = 0) =>
          /\ mgr.tx_id = ID_NONE =>
                /\ dict_get_keys(mgr._tx_dboards) = <<"a", "b", "ab">>
                /\ BuiltBy(mgr._tx_dboards, basic_rx_make)
          /\ mgr.rx_id = ID_NONE =>
                /\ dict_get_keys(mgr._rx_dboards) = <<"a", "b", "ab">>
                /\ BuiltBy(mgr._rx_dboards, basic_rx_make)

\* a manager for the 'none' code as TX code and the basic-TX code as RX
\* code, no client registration made: its TX side holds three instances made
\* by basic_rx::make
C23_Witness ==
    /\ reg_hist.n_ext = 0
    /\ mgr.state = "ok"
    /\ mgr.tx_id = ID_NONE
    /\ mgr.rx_id = ID_BASIC_TX
    /\ dict_get_keys(mgr._tx_dboards) = <<"a", "b", "ab">>
    /\ BuiltBy(mgr._tx_dboards, basic_rx_make)
    /\ dict_get_keys(mgr._rx_dboards) = <<"">>

\* ---- C24
\* C24: a registration for one code changes neither the constructor nor the
\* name list obtained for another code registered before: every registered
\* code resolves to the constructor, and through it to the name list, that
\* the code itself was last registered with.
C24_EntriesIsolated ==
    \A id \in DboardIds :
        reg_hist.last[id] # NoValue =>
            /\ CtorOf(id) = reg_hist.last[id]
            /\ dict_get(ctor_to_names_map, CtorOf(id)) = reg_hist.names[id]

\* a client registered code ExtId with ext::make and the list ("a"), then
\* the basic-TX code with ext::make and the list ("b", "b"): a manager for
\* ExtId is now built with the names of the second registration
C24_Witness ==
    \E id \in ExtIds :
        /\ reg_hist.last[id] = "ext::make"
        /\ reg_hist.names[id] = <<"a">>
        /\ reg_hist.last[ID_BASIC_TX] = "ext::make"
        /\ mgr.state = "ok"
        /\ mgr.rx_id = id
        /\ dict_get_keys(mgr._rx_dboards) = <<"b">>

\* ---- C25
\* the flat indices of a direction that get_pp_string made a text for, in order
Listed(dir) ==
    LET idx == {k \in 1..Len(fc.calls) : fc.calls[k][1] = dir}
        nth(n) == CHOOSE k \in idx : Cardinality({j \in idx : j < k}) = n - 1
    IN  [n \in 1..Cardinality(idx) |-> fc.calls[nth(n)][2]]

\* every board has a DSP for each channel of its specifications
ConsistentTopology == \A dir \in Dirs : \A b \in 1..Len(dev.mboards) : Counts(dir)[b] <= dev.num_dsps

EqualCounts(dir) == \A b \in 1..Len(dev.mboards) : Counts(dir)[b] = Counts(dir)[1]

\* C25: on a consistent topology, whatever the per-board channel counts,
\* get_pp_string ends without error and lists, for each direction, the flat
\* indices 0 .. total-1, each once, and no other.
C25_ListsEveryChannelOnce ==
    (fc.op = "get_pp_string" /\ ConsistentTopology) =>
        /\ fc.error = NoValue
        /\ \A dir \in Dirs : Listed(dir) = UpTo(Total(dir))

\* C25, what the loops do: the inner bound is (m + 1) times the count of
\* board m, which is the count of the boards 0 .. m only when the boards have
\* the same count; with equal counts per direction the listing is complete
\* and the call ends without error, and in every case the indices listed are
\* 0, 1, 2, ... without a gap or a repeat.
C25_EqualCountsListed ==
    fc.op = "get_pp_string" =>
        /\ dev = fc.before
        /\ fc.writes = <<>>
        /\ \A dir \in Dirs : Listed(dir) = UpTo(Len(Listed(dir)))
        /\ (ConsistentTopology /\ EqualCounts(RX_DIR) /\ EqualCounts(TX_DIR)) =>
              /\ fc.error = NoValue
              /\ \A dir \in Dirs : Listed(dir) = UpTo(Total(dir))

\* boards with one and two RX channels: the loop for board 1 runs to index
\* 3, past the total of three, and the call fails with an out-of-range error
C25_Witness ==
    /\ fc.op = "get_pp_string"
    /\ ConsistentTopology
    /\ Counts(RX_DIR) = <<1, 2>>
    /\ Listed(RX_DIR) = <<0, 1, 2, 3>>
    /\ fc.error = "out_of_range"

\* ---- C26 (under SpecTime)
\* all the boards' clocks show the same time
EqualClocks(clocks) == \A b \in 1..Len(clocks) : clocks[b] = clocks[1]

\* the clocks agreed at both reads of the pair and board 0's did not go back
ClocksAgreed(p) ==
    /\ EqualClocks(p.clocks_0)
    /\ EqualClocks(p.clocks_i)
    /\ p.clocks_i[1] >= p.clocks_0[1]

\* the clock time that went by between the two reads of the pair
Elapsed(p) == p.clocks_i[1] - p.clocks_0[1]

\* the call found board p.m deviating
Judged(p) ==
    IF InSync THEN p.m \in Range(tc.warnings)
    ELSE tc.result = "false" /\ p = tc.pairs[Len(tc.pairs)]

\* C26: in set_time_unknown_pps and in get_time_synchronized, the pairs are
\* read for m = 1, 2, ...; each pair's time_0 is what board 0's clock showed
\* at a read made for that pair, and time_i what board m's showed at the
\* next read; so when the clocks agree and do not go back, no board is
\* found behind, and a board is found deviating exactly when more than 10 ms
\* (one tick) of clock time went by between the two reads of its pair.
C26_FreshReadOfBoardZero ==
    \A k \in 1..Len(tc.pairs) :
        LET p == tc.pairs[k] IN
        /\ p.m = k
        /\ p.time_0 = p.clocks_0[1]
        /\ p.time_i = p.clocks_i[p.m + 1]
        /\ InSync => \E j \in 1..(Len(tc.trace) - 1) :
                         tc.trace[j] = Ev("read", 0) /\ tc.trace[j + 1] = Ev("read", k)
        /\ ClocksAgreed(p) =>
              /\ p.time_i >= p.time_0
              /\ (tc.pc = "done" \/ k < Len(tc.pairs)) =>
                    (Judged(p) <=> Elapsed(p) > ToleranceTicks)

\* three boards whose clocks agree throughout: 20 ms went by between the two
\* reads for board 2, none between those for board 1, and
\* set_time_unknown_pps warned about board 2 only
C26_Witness ==
    /\ InSync
    /\ tc.pc = "done"
    /\ Len(tc.pairs) = 2
    /\ ClocksAgreed(tc.pairs[1])
    /\ ClocksAgreed(tc.pairs[2])
    /\ Elapsed(tc.pairs[1]) = 0
    /\ Elapsed(tc.pairs[2]) = 2
    /\ tc.warnings = <<2>>

====
